---- MODULE Spec2Model ----
(***************************************************************************)
(* Pool graph of the arbitrage discovery engine (src/src/graph.rs): the    *)
(* node and edge tables, their index maps and adjacency, the insertion of  *)
(* pools during build_graph, update_edge, and the depth-bounded cycle      *)
(* enumeration build_cycles with canonicalize and check_cycle.             *)
(*                                                                         *)
(* Node and edge ids are 0-based as in the source; the tables are TLA+     *)
(* sequences, so id i lives at position i + 1.  An Option is a sequence of *)
(* length 0 (None) or 1 (Some).  A Pubkey is represented by the base58     *)
(* text it was parsed from; parsing fails on text outside Base58Keys.      *)
(***************************************************************************)
EXTENDS Integers, Sequences, FiniteSets, TLC

VARIABLES
    pc,               \* position of the caller: "build_graph", "ready", "cycles_built", "panicked"; "canon_*" for canonicalize alone
    wsol_node,        \* Graph.wsol_node
    nodes,            \* Graph.nodes
    edges,            \* Graph.edges
    address_to_node,  \* Graph.address_to_node
    address_to_edge,  \* Graph.address_to_edge
    adjacency,        \* Graph.adjacency
    all_cycles,       \* Graph.all_cycles
    depth_used,       \* max_depth of the last build_cycles that returned, -1 before
    updates_done,     \* number of update_edge calls made so far
    last_result,      \* what the last call returned: "None", "Ok", "Err", "Panic"
    canon_in,         \* argument handed to canonicalize
    canon_rot,        \* rotation amount applied to the argument
    canon_out,        \* results of canonicalize on the argument, its rotation and its reversal
    last_call,        \* the last call made on the graph: [op, arg, ret]
    node_calls,       \* the direct insert_node calls made so far: [token, ok, index]
    account,          \* the Account handed to decode_account: [owner, data]
    decoded,          \* what decode_account returned
    entries,          \* the block entries handed to filter_by_programs
    matches,          \* what filter_by_programs returned
    ix_in,            \* the transaction and program index handed to the Meteora v3 decoder
    ix_out,           \* what the decoder returned and what it decoded
    ingestors,        \* the two fetch_pools futures of update_all: [at, pages, file]
    update_all_ret,   \* what update_all returned: "Pending", "Ok", "Err"
    addresses,        \* the pool addresses load_pools returned
    tasks,            \* the spawned task of each chunk: [chunk, state, accounts]
    accounts_data,    \* the (address, account) pairs collected from the joined tasks
    rate_pool,        \* the PoolInfo the edge handed to get_exchange_rate was inserted from
    rate_call,        \* the call of get_exchange_rate: [direct, ret]
    fetch,            \* one fetch_pools call: [dex, at, pages, first_item, file, ret]
    served,           \* the pages the pool API returned to that call
    run               \* the process: [setup, stages, exit_code]

vars == <<pc, wsol_node, nodes, edges, address_to_node, address_to_edge, adjacency,
          all_cycles, depth_used, updates_done, last_result, canon_in, canon_rot, canon_out,
          last_call, node_calls, account, decoded, entries, matches, ix_in, ix_out,
          ingestors, update_all_ret, addresses, tasks, accounts_data, rate_pool, rate_call,
          fetch, served, run>>

decode_vars == <<account, decoded>>

filter_vars == <<entries, matches>>

ix_vars == <<ix_in, ix_out>>

boot_vars == <<ingestors, update_all_ret>>

fan_vars == <<addresses, tasks, accounts_data>>

rate_vars == <<rate_pool, rate_call>>

ingest_vars == <<fetch, served>>

main_vars == <<run>>

\* the variables of the components that the graph, canonicalize, the account
\* decoders and the classifier do not touch
rest_vars == <<ix_vars, boot_vars, fan_vars, rate_vars, ingest_vars, main_vars>>

graph_vars == <<wsol_node, nodes, edges, address_to_node, address_to_edge, adjacency,
                all_cycles, depth_used, updates_done, last_result>>

canon_vars == <<canon_in, canon_rot, canon_out>>

\* the variables of the graph, canonicalize, the account decoders and the classifier
core_vars == <<graph_vars, canon_vars, last_call, node_calls, decode_vars, filter_vars>>

(***************************************************************************)
(* Bounds of the model.                                                    *)
(***************************************************************************)
MaxEdges == 3        \* pools that build_graph inserts successfully
MaxDepth == 3        \* largest max_depth handed to build_cycles
MaxUpdates == 2      \* update_edge calls
MaxCanonLen == 4     \* longest sequence handed to canonicalize alone
MaxCanonId == 2      \* largest edge id in such a sequence
MaxNodeCalls == 3    \* insert_node calls made directly on a graph
MaxSeed == 3         \* account contents handed to decode_account, per owner, length and discriminator
MaxKeys == 3         \* static account keys of a transaction handed to filter_by_programs
MaxIxSeed == 1       \* argument bytes of an instruction handed to the Meteora v3 decoder
MaxPages == 2        \* pages one ingestor requests (max_iterations)
MaxPagePools == 2    \* pools of one page that pass PoolInfo::check
MaxChunks == 3       \* chunks the loaded pool addresses are split into
MaxRateSeed == 1     \* arbitrary square-root prices handed to get_exchange_rate, per magnitude
MaxCheckLen == 3     \* length of a cycle handed to check_cycle
MaxMessages == 4     \* messages the entry stream yields before it ends

(***************************************************************************)
(* Program constants.                                                      *)
(***************************************************************************)
USIZE_MAX == 2147483647    \* stands for usize::MAX, the wsol_node sentinel
WSOL_ADDRESS == "So11111111111111111111111111111111111111112"
INVALID_ADDRESS == "invalid address"

TokenKeys == {WSOL_ADDRESS, "T1", "T2"}
PoolKeys == <<"P1", "P2", "P3", "P4", "P5", "P6">>
UNKNOWN_POOL == "P9"
OtherKeys == {"VaultA", "VaultB", "Config"}
Base58Keys == TokenKeys \cup {PoolKeys[i] : i \in DOMAIN PoolKeys} \cup {UNKNOWN_POOL} \cup OtherKeys

None == <<>>
Some(x) == <<x>>

\* variant: every text parses
Pubkey_from_str_accepts_all(s) == [ok |-> TRUE, value |-> s]

\* Pubkey::from_str: Ok(key) on base58 text of a 32-byte key, Err otherwise
Pubkey_from_str(s) ==
    IF s \in Base58Keys THEN [ok |-> TRUE, value |-> s] ELSE [ok |-> FALSE, value |-> s]

(***************************************************************************)
(* Inputs: TokenInfo and PoolInfo records as read from the pool files.     *)
(***************************************************************************)
TokenDecimals(a) == IF a = WSOL_ADDRESS THEN 9 ELSE 6

TokenInfo(a) ==
    [address |-> Some(a), decimals |-> Some(TokenDecimals(a)),
     name |-> IF a = "T2" THEN None ELSE Some(a), symbol |-> IF a = "T2" THEN None ELSE Some(a)]

TokenInfos == {TokenInfo(a) : a \in TokenKeys \cup {INVALID_ADDRESS}}

\* the same token as another file describes it: other decimals, name and symbol
TokenInfoOther(a) ==
    [address |-> Some(a), decimals |-> Some(2), name |-> Some("Other"), symbol |-> None]

\* tokens handed to insert_node directly
NodeInputs ==
    TokenInfos \cup {TokenInfoOther(WSOL_ADDRESS), TokenInfoOther("T1")}

PoolInfo(p, ta, tb, bad) ==
    [address |-> Some(IF bad = "address" THEN INVALID_ADDRESS ELSE p),
     fee_rate |-> Some(400), pool_type |-> Some("Concentrated"), dex |-> Some("Orca"),
     tick_spacing |-> Some(64),
     token_a |-> Some(ta), token_b |-> Some(tb),
     token_vault_a |-> Some(IF bad = "token_vault_a" THEN INVALID_ADDRESS ELSE "VaultA"),
     token_vault_b |-> Some(IF bad = "token_vault_b" THEN INVALID_ADDRESS ELSE "VaultB"),
     config |-> Some(IF bad = "config" THEN INVALID_ADDRESS ELSE "Config")]

\* the two tokens of the pools of the files, in the order (token_a, token_b)
TokenPairs ==
    {<<WSOL_ADDRESS, "T1">>, <<"T1", WSOL_ADDRESS>>, <<"T1", "T2">>, <<"T2", WSOL_ADDRESS>>,
     <<"T1", "T1">>, <<WSOL_ADDRESS, WSOL_ADDRESS>>}

\* Pool keys are interchangeable: the next pool of a file carries a key no
\* earlier pool has; one more record repeats the key of the first pool.
ValidPoolInfos(n_edges) ==
    {PoolInfo(PoolKeys[n_edges + 1], TokenInfo(t[1]), TokenInfo(t[2]), "none") : t \in TokenPairs}
    \cup {PoolInfo(PoolKeys[1], TokenInfo(WSOL_ADDRESS), TokenInfo("T1"), "none")}

\* records with one address that does not parse
InvalidPoolInfos ==
    {PoolInfo(PoolKeys[1], TokenInfo(INVALID_ADDRESS), TokenInfo("T1"), "none"),
     PoolInfo(PoolKeys[1], TokenInfo("T1"), TokenInfo(INVALID_ADDRESS), "none")}
    \cup {PoolInfo(PoolKeys[1], TokenInfo("T1"), TokenInfo("T2"), bad) :
            bad \in {"address", "token_vault_a", "token_vault_b", "config"}}

\* PoolInfo::check: Ok exactly when no required field is absent
PoolInfo_check(pool) ==
    /\ pool.address # None /\ pool.fee_rate # None /\ pool.pool_type # None
    /\ pool.dex # None /\ pool.tick_spacing # None
    /\ pool.token_vault_a # None /\ pool.token_vault_b # None /\ pool.config # None
    /\ pool.token_a # None
    /\ pool.token_a[1].address # None /\ pool.token_a[1].decimals # None
    /\ pool.token_b # None
    /\ pool.token_b[1].address # None /\ pool.token_b[1].decimals # None

\* records with one required field absent (null or left out in the JSON)
MissingFieldPoolInfos ==
    LET pool == PoolInfo(PoolKeys[1], TokenInfo("T1"), TokenInfo("T2"), "none") IN
    {[pool EXCEPT !.token_a = None],
     [pool EXCEPT !.token_b = Some([TokenInfo("T2") EXCEPT !.address = None])],
     [pool EXCEPT !.token_b = Some([TokenInfo("T2") EXCEPT !.decimals = None])],
     [pool EXCEPT !.address = None],
     [pool EXCEPT !.config = None]}

PoolInfos(n_edges) == ValidPoolInfos(n_edges) \cup InvalidPoolInfos \cup MissingFieldPoolInfos

PoolUpdates ==
    {[new_liquidity |-> 123456, new_sqrt_price |-> 1234567, new_current_tick_index |-> -1234],
     [new_liquidity |-> 7, new_sqrt_price |-> 8, new_current_tick_index |-> 9]}

(***************************************************************************)
(* Sequence helpers of the standard library.                               *)
(***************************************************************************)
\* <[T]>::rotate_left(k): the first k elements move to the end
rotate_left(s, k) == SubSeq(s, k + 1, Len(s)) \o SubSeq(s, 1, k)

\* Iterator::rev().collect()
rev(s) == [i \in 1..Len(s) |-> s[Len(s) + 1 - i]]

\* Iterator::min_by_key on enumerate(): 0-based position of the FIRST minimum
min_idx_of(s) ==
    CHOOSE i \in 0..(Len(s) - 1) :
        /\ \A j \in 0..(Len(s) - 1) : s[i + 1] <= s[j + 1]
        /\ \A j \in 0..(i - 1) : s[j + 1] > s[i + 1]

\* Ord for Vec<usize>: lexicographic a <= b
RECURSIVE vec_le(_, _)
vec_le(a, b) ==
    IF a = <<>> THEN TRUE
    ELSE IF b = <<>> THEN FALSE
    ELSE IF Head(a) < Head(b) THEN TRUE
    ELSE IF Head(a) > Head(b) THEN FALSE
    ELSE vec_le(Tail(a), Tail(b))

\* iteration order of a HashSet<usize>: unspecified; two orders are modelled
RECURSIVE hash_iter(_, _)
hash_iter(S, order) ==
    IF S = {} THEN <<>>
    ELSE LET x == IF order = "asc" THEN CHOOSE m \in S : \A y \in S : m <= y
                  ELSE CHOOSE m \in S : \A y \in S : m >= y
         IN <<x>> \o hash_iter(S \ {x}, order)

HashOrders == {"asc", "desc"}

(***************************************************************************)
(* Graph::canonicalize                                                     *)
(***************************************************************************)
\* mutant: the reversed sequence is not rotated to its minimum
canonicalize_unrotated_reverse(cycle) ==
    LET n == Len(cycle) IN
    IF n = 0 THEN <<>>
    ELSE LET min_idx == min_idx_of(cycle)
             forward == [i \in 1..n |-> cycle[((min_idx + (i - 1)) % n) + 1]]
             reversed == rev(cycle)
         IN IF vec_le(forward, reversed) THEN forward ELSE reversed

\* mutant: the larger of the two candidates is returned
canonicalize_takes_larger(cycle) ==
    LET n == Len(cycle) IN
    IF n = 0 THEN <<>>
    ELSE LET min_idx == min_idx_of(cycle)
             forward == [i \in 1..n |-> cycle[((min_idx + (i - 1)) % n) + 1]]
             reversed0 == rev(cycle)
             reversed == rotate_left(reversed0, min_idx_of(reversed0))
         IN IF vec_le(forward, reversed) THEN reversed ELSE forward

\* mutant: the forward candidate is the argument itself, not rotated to its minimum
canonicalize_unrotated_forward(cycle) ==
    LET n == Len(cycle) IN
    IF n = 0 THEN <<>>
    ELSE LET forward == cycle
             reversed0 == rev(cycle)
             reversed == rotate_left(reversed0, min_idx_of(reversed0))
         IN IF vec_le(forward, reversed) THEN forward ELSE reversed

canonicalize(cycle) ==
    LET n == Len(cycle) IN
    IF n = 0 THEN <<>>
    ELSE LET min_idx == min_idx_of(cycle)
             forward == [i \in 1..n |-> cycle[((min_idx + (i - 1)) % n) + 1]]
             reversed0 == rev(cycle)
             rev_min_idx == min_idx_of(reversed0)
             reversed == rotate_left(reversed0, rev_min_idx)
         IN IF vec_le(forward, reversed) THEN forward ELSE reversed

(***************************************************************************)
(* The graph as one value: the fields of struct Graph.                     *)
(***************************************************************************)
Self ==
    [wsol_address |-> WSOL_ADDRESS, wsol_node |-> wsol_node, nodes |-> nodes, edges |-> edges,
     address_to_node |-> address_to_node, address_to_edge |-> address_to_edge,
     adjacency |-> adjacency, all_cycles |-> all_cycles]

\* Graph::default
Graph_default ==
    [wsol_address |-> WSOL_ADDRESS, wsol_node |-> USIZE_MAX, nodes |-> <<>>, edges |-> <<>>,
     address_to_node |-> <<>>, address_to_edge |-> <<>>, adjacency |-> <<>>,
     all_cycles |-> {}]

\* HashMap::insert: the key is added, or its value replaced
map_insert(m, k, v) == [x \in (DOMAIN m) \cup {k} |-> IF x = k THEN v ELSE m[x]]

\* Option::unwrap_or
unwrap_or(opt, default) == IF opt = None THEN default ELSE opt[1]

(***************************************************************************)
(* Edge::get_other_node                                                    *)
(***************************************************************************)
get_other_node(edge, this_token) ==
    IF this_token = edge.node_lowest THEN Some(edge.node_highest)
    ELSE IF this_token = edge.node_highest THEN Some(edge.node_lowest)
    ELSE None

(***************************************************************************)
(* Graph::insert_node: [ok, index, graph]                                  *)
(***************************************************************************)
\* variant: the id of the base token is not recorded
insert_node_no_wsol(self, token) ==
    IF token.address = None
    THEN [ok |-> FALSE, panicked |-> TRUE, index |-> USIZE_MAX, graph |-> self]
    ELSE
    LET parsed == Pubkey_from_str(token.address[1]) IN
    IF ~parsed.ok THEN [ok |-> FALSE, panicked |-> FALSE, index |-> USIZE_MAX, graph |-> self]
    ELSE LET token_address == parsed.value IN
         IF token_address \in DOMAIN self.address_to_node
         THEN [ok |-> TRUE, panicked |-> FALSE,
               index |-> self.address_to_node[token_address], graph |-> self]
         ELSE IF token.decimals = None
         THEN [ok |-> FALSE, panicked |-> TRUE, index |-> USIZE_MAX, graph |-> self]
         ELSE LET node == [address |-> token_address,
                           decimals |-> token.decimals[1],
                           name |-> unwrap_or(token.name, "Empty Name"),
                           symbol |-> unwrap_or(token.symbol, "Empty Symbol")]
                  index == Len(self.nodes)
              IN [ok |-> TRUE, panicked |-> FALSE, index |-> index,
                  graph |-> [self EXCEPT
                      !.nodes = Append(@, node),
                      !.address_to_node = map_insert(@, token_address, index),
                      !.adjacency = map_insert(@, index, {})]]

\* variant: the lookup of the address in address_to_node is left out
insert_node_no_lookup(self, token) ==
    IF token.address = None
    THEN [ok |-> FALSE, panicked |-> TRUE, index |-> USIZE_MAX, graph |-> self]
    ELSE
    LET parsed == Pubkey_from_str(token.address[1]) IN
    IF ~parsed.ok THEN [ok |-> FALSE, panicked |-> FALSE, index |-> USIZE_MAX, graph |-> self]
    ELSE LET token_address == parsed.value IN
         IF token.decimals = None
         THEN [ok |-> FALSE, panicked |-> TRUE, index |-> USIZE_MAX, graph |-> self]
         ELSE LET node == [address |-> token_address,
                           decimals |-> token.decimals[1],
                           name |-> unwrap_or(token.name, "Empty Name"),
                           symbol |-> unwrap_or(token.symbol, "Empty Symbol")]
                  index == Len(self.nodes)
              IN [ok |-> TRUE, panicked |-> FALSE, index |-> index,
                  graph |-> [self EXCEPT
                      !.wsol_node = IF token_address = self.wsol_address THEN index ELSE @,
                      !.nodes = Append(@, node),
                      !.address_to_node = map_insert(@, token_address, index),
                      !.adjacency = map_insert(@, index, {})]]

insert_node(self, token) ==
    IF token.address = None
    THEN [ok |-> FALSE, panicked |-> TRUE, index |-> USIZE_MAX, graph |-> self]
    ELSE
    LET parsed == Pubkey_from_str(token.address[1]) IN
    IF ~parsed.ok THEN [ok |-> FALSE, panicked |-> FALSE, index |-> USIZE_MAX, graph |-> self]
    ELSE LET token_address == parsed.value IN
         IF token_address \in DOMAIN self.address_to_node
         THEN [ok |-> TRUE, panicked |-> FALSE,
               index |-> self.address_to_node[token_address], graph |-> self]
         ELSE IF token.decimals = None
         THEN [ok |-> FALSE, panicked |-> TRUE, index |-> USIZE_MAX, graph |-> self]
         ELSE LET node == [address |-> token_address,
                           decimals |-> token.decimals[1],
                           name |-> unwrap_or(token.name, "Empty Name"),
                           symbol |-> unwrap_or(token.symbol, "Empty Symbol")]
                  index == Len(self.nodes)
              IN [ok |-> TRUE, panicked |-> FALSE, index |-> index,
                  graph |-> [self EXCEPT
                      !.wsol_node = IF token_address = self.wsol_address THEN index ELSE @,
                      !.nodes = Append(@, node),
                      !.address_to_node = map_insert(@, token_address, index),
                      !.adjacency = map_insert(@, index, {})]]

(***************************************************************************)
(* Graph::insert_edge: [ok, index, graph]                                  *)
(***************************************************************************)
\* variant: the edge enters the set of its lower endpoint only
adjacency_insert_lowest_only(adj, idx_lowest, idx_highest, index) ==
    [n \in DOMAIN adj |-> IF n = idx_lowest THEN adj[n] \cup {index} ELSE adj[n]]

\* adjacency.get_mut(&idx_lowest).unwrap().insert(index), then the same for
\* idx_highest; both entries exist, insert_node made them
adjacency_insert(adj, idx_lowest, idx_highest, index) ==
    [n \in DOMAIN adj |->
        IF n \in {idx_lowest, idx_highest} THEN adj[n] \cup {index} ELSE adj[n]]

insert_edge(self, pool, node0_index, node1_index) ==
    LET panic == [ok |-> FALSE, panicked |-> TRUE, index |-> USIZE_MAX, graph |-> self]
        err == [ok |-> FALSE, panicked |-> FALSE, index |-> USIZE_MAX, graph |-> self]
    IN
    IF pool.token_vault_a = None \/ pool.token_vault_b = None THEN panic
    ELSE
    LET o == IF node0_index < node1_index
             THEN [token_vault_lowest |-> pool.token_vault_a[1],
                   token_vault_highest |-> pool.token_vault_b[1],
                   idx_lowest |-> node0_index, idx_highest |-> node1_index,
                   reversed |-> FALSE]
             ELSE [token_vault_lowest |-> pool.token_vault_b[1],
                   token_vault_highest |-> pool.token_vault_a[1],
                   idx_lowest |-> node1_index, idx_highest |-> node0_index,
                   reversed |-> TRUE]
        address == Pubkey_from_str(pool.address[1])
        vault_lowest == Pubkey_from_str(o.token_vault_lowest)
        vault_highest == Pubkey_from_str(o.token_vault_highest)
        config == Pubkey_from_str(pool.config[1])
    IN IF pool.address = None THEN panic
       ELSE IF ~address.ok THEN err
       ELSE IF pool.fee_rate = None \/ pool.pool_type = None \/ pool.dex = None
               \/ pool.tick_spacing = None THEN panic
       ELSE IF ~vault_lowest.ok \/ ~vault_highest.ok THEN err
       ELSE IF pool.config = None THEN panic
       ELSE IF ~config.ok THEN err
       ELSE LET edge == [address |-> address.value,
                         fee_rate |-> pool.fee_rate[1], pool_type |-> pool.pool_type[1],
                         dex |-> pool.dex[1], tick_spacing |-> pool.tick_spacing[1],
                         token_vault_lowest |-> vault_lowest.value,
                         token_vault_highest |-> vault_highest.value,
                         config |-> config.value,
                         node_lowest |-> o.idx_lowest, node_highest |-> o.idx_highest,
                         decimals_lowest |-> self.nodes[o.idx_lowest + 1].decimals,
                         decimals_highest |-> self.nodes[o.idx_highest + 1].decimals,
                         reversed |-> o.reversed,
                         sqrt_price |-> None, liquidity |-> None, current_tick_index |-> None]
                index == Len(self.edges)
            IN [ok |-> TRUE, panicked |-> FALSE, index |-> index,
                graph |-> [self EXCEPT
                    !.edges = Append(@, edge),
                    !.address_to_edge = map_insert(@, address.value, index),
                    !.adjacency = adjacency_insert(@, o.idx_lowest, o.idx_highest, index)]]

(***************************************************************************)
(* Graph::insert_pool: [ok, panicked, graph]; a failing step returns with  *)
(* the mutations of the earlier steps in place; an unwrap of an absent     *)
(* field panics                                                            *)
(***************************************************************************)
insert_pool(self, pool) ==
    IF pool.token_a = None THEN [ok |-> FALSE, panicked |-> TRUE, graph |-> self]
    ELSE
    LET r0 == insert_node(self, pool.token_a[1]) IN
    IF ~r0.ok THEN [ok |-> FALSE, panicked |-> r0.panicked, graph |-> r0.graph]
    ELSE IF pool.token_b = None THEN [ok |-> FALSE, panicked |-> TRUE, graph |-> r0.graph]
    ELSE LET r1 == insert_node(r0.graph, pool.token_b[1]) IN
         IF ~r1.ok THEN [ok |-> FALSE, panicked |-> r1.panicked, graph |-> r1.graph]
         ELSE LET r2 == insert_edge(r1.graph, pool, r0.index, r1.index) IN
              [ok |-> r2.ok, panicked |-> r2.panicked, graph |-> r2.graph]

(***************************************************************************)
(* Graph::update_edge: [ok, graph]                                         *)
(***************************************************************************)
\* variant: an edge that has dynamic fields keeps them
update_edge_first_wins(self, address, data) ==
    IF address \in DOMAIN self.address_to_edge
       /\ self.address_to_edge[address] < Len(self.edges)
    THEN LET edge_index == self.address_to_edge[address] IN
         [ok |-> TRUE,
          graph |-> IF self.edges[edge_index + 1].liquidity # None THEN self
                    ELSE [self EXCEPT
              !.edges[edge_index + 1].liquidity = Some(data.new_liquidity),
              !.edges[edge_index + 1].sqrt_price = Some(data.new_sqrt_price),
              !.edges[edge_index + 1].current_tick_index = Some(data.new_current_tick_index)]]
    ELSE [ok |-> FALSE, graph |-> self]

\* variant: an address without an edge is accepted
update_edge_unknown_is_ok(self, address, data) ==
    IF address \in DOMAIN self.address_to_edge
       /\ self.address_to_edge[address] < Len(self.edges)
    THEN LET edge_index == self.address_to_edge[address] IN
         [ok |-> TRUE,
          graph |-> [self EXCEPT
              !.edges[edge_index + 1].liquidity = Some(data.new_liquidity),
              !.edges[edge_index + 1].sqrt_price = Some(data.new_sqrt_price),
              !.edges[edge_index + 1].current_tick_index = Some(data.new_current_tick_index)]]
    ELSE [ok |-> TRUE, graph |-> self]

\* variant: every edge that carries the address is updated
update_edge_every_match(self, address, data) ==
    IF address \in DOMAIN self.address_to_edge
       /\ self.address_to_edge[address] < Len(self.edges)
    THEN [ok |-> TRUE,
          graph |-> [self EXCEPT !.edges = [i \in DOMAIN self.edges |->
              IF self.edges[i].address # address THEN self.edges[i]
              ELSE [self.edges[i] EXCEPT
                       !.liquidity = Some(data.new_liquidity),
                       !.sqrt_price = Some(data.new_sqrt_price),
                       !.current_tick_index = Some(data.new_current_tick_index)]]]]
    ELSE [ok |-> FALSE, graph |-> self]

update_edge(self, address, data) ==
    IF address \in DOMAIN self.address_to_edge
       /\ self.address_to_edge[address] < Len(self.edges)
    THEN LET edge_index == self.address_to_edge[address] IN
         [ok |-> TRUE,
          graph |-> [self EXCEPT
              !.edges[edge_index + 1].liquidity = Some(data.new_liquidity),
              !.edges[edge_index + 1].sqrt_price = Some(data.new_sqrt_price),
              !.edges[edge_index + 1].current_tick_index = Some(data.new_current_tick_index)]]
    ELSE [ok |-> FALSE, graph |-> self]

(***************************************************************************)
(* Graph::check_cycle: [need_change, cycle], cycle being the slice after   *)
(* the call                                                                *)
(***************************************************************************)
\* the for loop over cycle.iter().enumerate(), from position index on
RECURSIVE check_cycle_walk(_, _, _, _)
check_cycle_walk(self, cycle, index, last_node) ==
    IF index >= Len(cycle)
    THEN [need_change |-> FALSE, last_node |-> last_node, problematic_edge_index |-> Len(cycle)]
    ELSE LET edge == self.edges[cycle[index + 1] + 1]
             other == get_other_node(edge, last_node)
         IN IF other = None
            THEN [need_change |-> TRUE, last_node |-> last_node, problematic_edge_index |-> index]
            ELSE check_cycle_walk(self, cycle, index + 1, other[1])

check_cycle(self, cycle) ==
    LET cycle_len == Len(cycle)
        w == check_cycle_walk(self, cycle, 0, self.wsol_node)
        open_end == ~w.need_change /\ w.last_node # 0
        need_change == w.need_change \/ open_end
        problematic_edge_index == IF open_end THEN cycle_len - 1 ELSE w.problematic_edge_index
    IN [need_change |-> need_change,
        cycle |-> IF ~need_change THEN cycle
                  ELSE IF problematic_edge_index < cycle_len /\ problematic_edge_index > 0
                       THEN rotate_left(cycle, 1)
                  ELSE IF problematic_edge_index = 0
                       THEN rotate_left(cycle, cycle_len - 1)
                  ELSE cycle]

(***************************************************************************)
(* Graph::dfs_recursive.  The mutable arguments visited_edges, path and    *)
(* cycles travel in the record st; st.panicked records an index into       *)
(* adjacency with a key it does not hold, st.deepest the longest path the  *)
(* search has held.                                                        *)
(***************************************************************************)
\* the closure handed to position(): the edge touches the base token
touches_wsol(self, pool_index) ==
    LET edge == self.edges[pool_index + 1]
        node_a == self.nodes[edge.node_lowest + 1]
        node_b == self.nodes[edge.node_highest + 1]
    IN node_a.address = self.wsol_address \/ node_b.address = self.wsol_address

\* canonical.iter().position(..) followed by rotate_left(pos)
anchor_at_wsol(self, canonical) ==
    LET hits == {i \in 0..(Len(canonical) - 1) : touches_wsol(self, canonical[i + 1])} IN
    IF hits = {} THEN canonical
    ELSE rotate_left(canonical, CHOOSE pos \in hits : \A q \in hits : pos <= q)

\* mutant: the closed path is anchored but not canonicalized
found_cycle_not_canonical(self, path) == anchor_at_wsol(self, path)

\* what is inserted into cycles for a closed path
found_cycle(self, path) == anchor_at_wsol(self, canonicalize(path))

\* variant: the depth asked for does not stop the search
depth_reached_never(path, max_depth) == FALSE

\* mutant: the search stops one edge early
depth_reached_one_early(path, max_depth) == Len(path) + 1 >= max_depth

\* the test that makes dfs_recursive return at once
depth_reached(path, max_depth) == Len(path) >= max_depth

\* mutant: a single edge back to the start counts as a cycle
closes_cycle_any_length(other_node, start_node, path) == other_node = start_node

\* the test that makes a path a discovered cycle
closes_cycle(other_node, start_node, path) == other_node = start_node /\ Len(path) >= 2

RECURSIVE dfs_recursive(_, _, _, _, _, _)
RECURSIVE dfs_for(_, _, _, _, _, _, _)

\* the body of `for &edge_index in &self.adjacency[&current_node]`, todo being
\* the edges the iterator has yet to yield
dfs_for(self, start_node, current_node, todo, st, max_depth, order) ==
    IF todo = <<>> \/ st.panicked THEN st
    ELSE LET edge_index == Head(todo) IN
         IF st.visited_edges[edge_index + 1]
         THEN dfs_for(self, start_node, current_node, Tail(todo), st, max_depth, order)
         ELSE LET edge == self.edges[edge_index + 1]
                  other_node == get_other_node(edge, current_node)[1]
                  st1 == [st EXCEPT !.visited_edges[edge_index + 1] = TRUE,
                                    !.path = Append(@, edge_index),
                                    !.deepest = IF Len(st.path) + 1 > @
                                                THEN Len(st.path) + 1 ELSE @]
                  st2 == IF closes_cycle(other_node, start_node, st1.path)
                         THEN [st1 EXCEPT !.cycles = @ \cup {found_cycle(self, st1.path)}]
                         ELSE st1
                  st3 == dfs_recursive(self, start_node, other_node, st2, max_depth, order)
                  st4 == [st3 EXCEPT !.path = SubSeq(@, 1, Len(@) - 1),
                                     !.visited_edges[edge_index + 1] = FALSE]
              IN dfs_for(self, start_node, current_node, Tail(todo), st4, max_depth, order)

dfs_recursive(self, start_node, current_node, st, max_depth, order) ==
    IF depth_reached(st.path, max_depth) THEN st
    ELSE IF current_node \notin DOMAIN self.adjacency THEN [st EXCEPT !.panicked = TRUE]
    ELSE dfs_for(self, start_node, current_node,
                 hash_iter(self.adjacency[current_node], order), st, max_depth, order)

(***************************************************************************)
(* Graph::build_cycles: [result, graph, dfs], dfs being the state the      *)
(* depth-first search returned with                                        *)
(***************************************************************************)
\* variant: the cycles found are added to those all_cycles holds
build_cycles_extending(self, max_depth, order) ==
    LET start_node == self.wsol_node
        st0 == [visited_edges |-> [i \in 1..Len(self.edges) |-> FALSE], path |-> <<>>,
                cycles |-> {}, panicked |-> FALSE, deepest |-> 0]
        st == dfs_recursive(self, start_node, start_node, st0, max_depth, order)
    IN IF st.panicked THEN [result |-> "Panic", graph |-> self, dfs |-> st]
       ELSE [result |-> "Ok",
             graph |-> [self EXCEPT !.all_cycles =
                           @ \cup {check_cycle(self, c).cycle : c \in st.cycles}],
             dfs |-> st]

build_cycles(self, max_depth, order) ==
    LET start_node == self.wsol_node
        st0 == [visited_edges |-> [i \in 1..Len(self.edges) |-> FALSE], path |-> <<>>,
                cycles |-> {}, panicked |-> FALSE, deepest |-> 0]
        st == dfs_recursive(self, start_node, start_node, st0, max_depth, order)
    IN IF st.panicked THEN [result |-> "Panic", graph |-> self, dfs |-> st]
       ELSE [result |-> "Ok",
             graph |-> [self EXCEPT !.all_cycles = {check_cycle(self, c).cycle : c \in st.cycles}],
             dfs |-> st]

(***************************************************************************)
(* The state machine: build_graph inserts the pools of the files one by    *)
(* one and returns the graph; the caller then enumerates the cycles, as    *)
(* main and the integration test do.                                       *)
(***************************************************************************)
NoCanonOut == [input |-> <<>>, rotation |-> <<>>, reversal |-> <<>>]

SetGraph(g) ==
    /\ wsol_node' = g.wsol_node
    /\ nodes' = g.nodes
    /\ edges' = g.edges
    /\ address_to_node' = g.address_to_node
    /\ address_to_edge' = g.address_to_edge
    /\ adjacency' = g.adjacency
    /\ all_cycles' = g.all_cycles

NoCall == [op |-> "none", arg |-> None, ret |-> "None"]

NoAccount == [owner |-> "none", data |-> <<>>]

NoDecoded == [result |-> "None"]

\* Graph::default() in a fresh process
GraphInit ==
    /\ wsol_node = Graph_default.wsol_node
    /\ nodes = Graph_default.nodes
    /\ edges = Graph_default.edges
    /\ address_to_node = Graph_default.address_to_node
    /\ address_to_edge = Graph_default.address_to_edge
    /\ adjacency = Graph_default.adjacency
    /\ all_cycles = Graph_default.all_cycles
    /\ depth_used = -1
    /\ updates_done = 0
    /\ last_result = "None"
    /\ last_call = NoCall
    /\ node_calls = <<>>

CanonIdle ==
    /\ canon_in = <<>>
    /\ canon_rot = 0
    /\ canon_out = NoCanonOut

DecodeIdle ==
    /\ account = NoAccount
    /\ decoded = NoDecoded

NoMatches == [result |-> "None", matches |-> <<>>]

FilterIdle ==
    /\ entries = <<>>
    /\ matches = NoMatches

NoIxIn == [transaction |-> [keys |-> <<>>, instructions |-> <<>>], program_index |-> 0]

NoIxOut == [outcome |-> "None", decoded |-> <<>>]

IxIdle ==
    /\ ix_in = NoIxIn
    /\ ix_out = NoIxOut

\* the futures of update_all before it is called
INGESTORS == {"orca", "raydium"}

NoFile == [created |-> FALSE, header |-> FALSE, pools |-> 0, footer |-> FALSE, flushed |-> FALSE]

fetch_pools_start == [at |-> "create", pages |-> 0, file |-> NoFile]

BootIdle ==
    /\ ingestors = [d \in INGESTORS |-> fetch_pools_start]
    /\ update_all_ret = "Pending"

\* main before load_pools
FanIdle ==
    /\ addresses = <<>>
    /\ tasks = <<>>
    /\ accounts_data = <<>>

NoRateCall == [direct |-> FALSE, ret |-> None]

\* no edge has been asked for its exchange rate
RateIdle ==
    /\ rate_pool = None
    /\ rate_call = NoRateCall

NoFetch == [dex |-> "none", at |-> "create", pages |-> 0, first_item |-> TRUE, file |-> <<>>, ret |-> "Pending"]

\* no fetch_pools call is followed on its own
IngestIdle ==
    /\ fetch = NoFetch
    /\ served = <<>>

NoRun == [setup |-> FALSE, stages |-> <<>>, exit_code |-> None]

\* main is not followed
MainIdle == run = NoRun

RestIdle == IxIdle /\ BootIdle /\ FanIdle /\ RateIdle /\ IngestIdle /\ MainIdle

Init ==
    /\ pc = "build_graph"
    /\ GraphInit
    /\ CanonIdle
    /\ DecodeIdle
    /\ FilterIdle
    /\ RestIdle

\* one iteration of `for pool in pools` of build_graph; a panic of
\* insert_pool unwinds through build_graph
InsertPool ==
    /\ pc = "build_graph"
    /\ Len(edges) < MaxEdges
    /\ \E pool \in PoolInfos(Len(edges)) :
        LET r == insert_pool(Self, pool)
            ret == IF r.panicked THEN "Panic" ELSE IF r.ok THEN "Ok" ELSE "Err"
        IN
        /\ SetGraph(r.graph)
        /\ last_result' = ret
        /\ last_call' = [op |-> "insert_pool", arg |-> pool, ret |-> ret]
        /\ pc' = IF r.panicked THEN "panicked" ELSE pc
    /\ UNCHANGED <<depth_used, updates_done, node_calls, canon_vars, decode_vars, filter_vars, rest_vars>>

\* build_graph returns Ok(graph)
BuildGraphReturns ==
    /\ pc = "build_graph"
    /\ pc' = "ready"
    /\ last_result' = "Ok"
    /\ last_call' = [op |-> "build_graph", arg |-> None, ret |-> "Ok"]
    /\ UNCHANGED <<wsol_node, nodes, edges, address_to_node, address_to_edge, adjacency,
                   all_cycles, depth_used, updates_done, node_calls, canon_vars,
                   decode_vars, filter_vars, rest_vars>>

BuildCycles ==
    /\ pc = "ready"
    /\ \E max_depth \in 0..MaxDepth, order \in HashOrders :
        LET r == build_cycles(Self, max_depth, order) IN
        /\ SetGraph(r.graph)
        /\ last_result' = r.result
        /\ last_call' = [op |-> "build_cycles", arg |-> max_depth, ret |-> r.result,
                         dfs |-> [visited_edges |-> r.dfs.visited_edges, path |-> r.dfs.path,
                                  deepest |-> r.dfs.deepest]]
        /\ pc' = IF r.result = "Panic" THEN "panicked" ELSE "cycles_built"
        /\ depth_used' = IF r.result = "Panic" THEN depth_used ELSE max_depth
    /\ UNCHANGED <<updates_done, node_calls, canon_vars, decode_vars, filter_vars, rest_vars>>

UpdateEdge ==
    /\ pc = "ready"
    /\ updates_done < MaxUpdates
    /\ \E address \in {PoolKeys[1], PoolKeys[2], UNKNOWN_POOL}, data \in PoolUpdates :
        LET r == update_edge(Self, address, data)
            ret == IF r.ok THEN "Ok" ELSE "Err"
        IN
        /\ SetGraph(r.graph)
        /\ last_result' = ret
        /\ last_call' = [op |-> "update_edge", arg |-> [address |-> address, data |-> data],
                         ret |-> ret]
    /\ updates_done' = updates_done + 1
    /\ UNCHANGED <<pc, depth_used, node_calls, canon_vars, decode_vars, filter_vars, rest_vars>>

\* build_graph, then build_cycles
Next == InsertPool \/ BuildGraphReturns \/ BuildCycles

Spec == Init /\ [][Next]_vars

\* build_graph, then update_edge for the fetched accounts
NextUpdate == InsertPool \/ BuildGraphReturns \/ UpdateEdge

SpecUpdate == Init /\ [][NextUpdate]_vars

(***************************************************************************)
(* insert_node on its own, as the unit tests call it on Graph::default().  *)
(***************************************************************************)
InitNode ==
    /\ pc = "node_calls"
    /\ GraphInit
    /\ CanonIdle
    /\ DecodeIdle
    /\ FilterIdle
    /\ RestIdle

InsertNode ==
    /\ pc = "node_calls"
    /\ Len(node_calls) < MaxNodeCalls
    /\ \E token \in NodeInputs :
        LET r == insert_node(Self, token)
            ret == IF r.panicked THEN "Panic" ELSE IF r.ok THEN "Ok" ELSE "Err"
        IN
        /\ SetGraph(r.graph)
        /\ last_result' = ret
        /\ last_call' = [op |-> "insert_node", arg |-> token, ret |-> ret]
        /\ node_calls' = Append(node_calls, [token |-> token, ok |-> r.ok, index |-> r.index])
        /\ pc' = IF r.panicked THEN "panicked" ELSE pc
    /\ UNCHANGED <<depth_used, updates_done, canon_vars, decode_vars, filter_vars, rest_vars>>

NextNode == InsertNode

SpecNode == InitNode /\ [][NextNode]_vars

(***************************************************************************)
(* canonicalize on its own, as the unit tests call it: the argument, a     *)
(* rotation of it and its reversal are canonicalized.                      *)
(***************************************************************************)
CanonInputs == UNION {[1..n -> 0..MaxCanonId] : n \in 0..MaxCanonLen}

InitCanon ==
    /\ pc = "canon_call"
    /\ GraphInit
    /\ canon_in \in CanonInputs
    /\ canon_rot \in 0..Len(canon_in)
    /\ canon_out = NoCanonOut
    /\ DecodeIdle
    /\ FilterIdle
    /\ RestIdle

Canonicalize ==
    /\ pc = "canon_call"
    /\ pc' = "canon_done"
    /\ canon_out' = [input |-> canonicalize(canon_in),
                     rotation |-> canonicalize(rotate_left(canon_in, canon_rot)),
                     reversal |-> canonicalize(rev(canon_in))]
    /\ UNCHANGED <<graph_vars, canon_in, canon_rot, last_call, node_calls,
                   decode_vars, filter_vars, rest_vars>>

NextCanon == Canonicalize

SpecCanon == InitCanon /\ [][NextCanon]_vars

(***************************************************************************)
(* Account decoders (decoders/mod.rs, raydium_decoder.rs, orca_decoder.rs). *)
(* A u128 is held as its eight base-65536 digits, most significant first;  *)
(* an i32 as an integer.                                                   *)
(***************************************************************************)
RAYDIUM_OWNER == "CAMMCzo5YL8w4VFF8KVHrK22GGUsp5VTaW7grrKgrWqK"
ORCA_OWNER == "whirLbMiicVdio4qvUfM5KAg6Ct8VwpYzGff3uctyCc"
TOKEN_PROGRAM_OWNER == "TokenkegQfeZyiNwAJbNbGKPFXCWuBvf9Ss623VQ5DA"

RAYDIUM_LEN == 1544
ORCA_LEN == 653

RAYDIUM_DISCRIMINATOR == <<247, 237, 227, 245, 215, 195, 222, 70>>
ORCA_DISCRIMINATOR == <<63, 149, 209, 12, 225, 128, 99, 9>>

\* data[from..to] of a Vec<u8>: 0-based, to exclusive
slice(data, from, to) == SubSeq(data, from + 1, to)

\* variant: the bytes are read most significant first
u128_from_be_bytes(b) == [j \in 1..8 |-> 256 * b[2 * j - 1] + b[2 * j]]

\* u128::from_le_bytes of 16 bytes
u128_from_le_bytes(b) == [j \in 1..8 |-> b[2 * (8 - j) + 1] + 256 * b[2 * (8 - j) + 2]]

\* i32::from_le_bytes of 4 bytes: two's complement
i32_from_le_bytes(b) ==
    b[1] + 256 * b[2] + 65536 * b[3] + 16777216 * (IF b[4] >= 128 THEN b[4] - 256 ELSE b[4])

DecodeErr(msg) == [result |-> "Err", error |-> msg]

DecodeOk(liquidity, sqrt_price, current_tick_index) ==
    [result |-> "Ok",
     update |-> [new_liquidity |-> liquidity, new_sqrt_price |-> sqrt_price,
                 new_current_tick_index |-> current_tick_index]]

decode_raydium_account(acc) ==
    IF Len(acc.data) # RAYDIUM_LEN THEN DecodeErr("Account data has wrong length")
    ELSE IF slice(acc.data, 0, 8) # RAYDIUM_DISCRIMINATOR
    THEN DecodeErr("Wrong Descriminator Found")
    ELSE DecodeOk(u128_from_le_bytes(slice(acc.data, 237, 253)),
                  u128_from_le_bytes(slice(acc.data, 253, 269)),
                  i32_from_le_bytes(<<acc.data[269 + 1], acc.data[270 + 1],
                                      acc.data[271 + 1], acc.data[272 + 1]>>))

\* variant: the discriminator is not compared
decode_orca_account_any_discriminator(acc) ==
    IF Len(acc.data) # ORCA_LEN THEN DecodeErr("Account data has wrong length")
    ELSE DecodeOk(u128_from_le_bytes(slice(acc.data, 49, 65)),
                  u128_from_le_bytes(slice(acc.data, 65, 81)),
                  i32_from_le_bytes(<<acc.data[81 + 1], acc.data[82 + 1],
                                      acc.data[83 + 1], acc.data[84 + 1]>>))

decode_orca_account(acc) ==
    IF Len(acc.data) # ORCA_LEN THEN DecodeErr("Account data has wrong length")
    ELSE IF slice(acc.data, 0, 8) # ORCA_DISCRIMINATOR
    THEN DecodeErr("Wrong Discriminator Found")
    ELSE DecodeOk(u128_from_le_bytes(slice(acc.data, 49, 65)),
                  u128_from_le_bytes(slice(acc.data, 65, 81)),
                  i32_from_le_bytes(<<acc.data[81 + 1], acc.data[82 + 1],
                                      acc.data[83 + 1], acc.data[84 + 1]>>))

\* the keys of the DECODERS map
DECODERS == {RAYDIUM_OWNER, ORCA_OWNER}

decode_account(acc) ==
    IF acc.owner \in DECODERS
    THEN IF acc.owner = RAYDIUM_OWNER THEN decode_raydium_account(acc)
         ELSE decode_orca_account(acc)
    ELSE DecodeErr("Unknown DEX")

(***************************************************************************)
(* decode_account on its own: one fetched account is decoded.              *)
(***************************************************************************)
\* byte i (0-based) of the account contents number seed: neighbouring bytes
\* differ, and so do the bytes one field apart
Filler(i, seed) == (i * 37 + (i \div 16) * 11 + seed * 101 + 5) % 256

AccountData(len, discriminator, seed) ==
    [k \in 1..len |-> IF k <= 8 THEN discriminator[k] ELSE Filler(k - 1, seed)]

AccountOwners == {RAYDIUM_OWNER, ORCA_OWNER, TOKEN_PROGRAM_OWNER}

AccountLengths == {0, ORCA_LEN - 1, ORCA_LEN, RAYDIUM_LEN, RAYDIUM_LEN + 1}

AccountDiscriminators ==
    {RAYDIUM_DISCRIMINATOR, ORCA_DISCRIMINATOR,
     [ORCA_DISCRIMINATOR EXCEPT ![8] = 10], [RAYDIUM_DISCRIMINATOR EXCEPT ![1] = 246]}

Accounts ==
    {[owner |-> o, data |-> AccountData(len, d, seed)] :
        o \in AccountOwners, len \in AccountLengths, d \in AccountDiscriminators,
        seed \in 0..MaxSeed}

InitDecode ==
    /\ pc = "decode_call"
    /\ GraphInit
    /\ CanonIdle
    /\ account \in Accounts
    /\ decoded = NoDecoded
    /\ FilterIdle
    /\ RestIdle

DecodeAccount ==
    /\ pc = "decode_call"
    /\ pc' = "decoded"
    /\ decoded' = decode_account(account)
    /\ UNCHANGED <<graph_vars, canon_vars, last_call, node_calls, account, filter_vars, rest_vars>>

NextDecode == DecodeAccount

SpecDecode == InitDecode /\ [][NextDecode]_vars

(***************************************************************************)
(* Transaction classifier (client: target_dexes.rs, get_shreds.rs) and the *)
(* per-program transaction decoders (transaction_decoders/).  A            *)
(* transaction is [keys, instructions]: its static account keys and its    *)
(* compiled instructions [program_id_index, data, accounts].  A u64 is     *)
(* held as its four base-65536 digits, most significant first.             *)
(***************************************************************************)
JUPITER_KEY == "JUP6LkbZbjS1jKKwapdHNy74zcZ3tLUZoi5QNyVTaV4"
RAYDIUM_V2_KEY == "CPMMoo8L3F4NbTegBCKVNunggL7H1ZpdTHKxQB5qKP1C"
RAYDIUM_V3_KEY == "CAMMCzo5YL8w4VFF8KVHrK22GGUsp5VTaW7grrKgrWqK"
ORCA_V3_KEY == "whirLbMiicVdio4qvUfM5KAg6Ct8VwpYzGff3uctyCc"
METEORA_V3_KEY == "cpamdpZCGKUy5JxQXB4dcpGPiikHawvSWAd6mEn1sGG"
METEORA_V2_KEY == "Eo7WjKq67rjJQSZxS6z3YkapzY3eMj6Xy8X5EQVn5UaB"
SYSTEM_PROGRAM_KEY == "11111111111111111111111111111111"

PROGRAM_KEYS ==
    <<[program |-> "Jupiter", key |-> JUPITER_KEY],
      [program |-> "RaydiumV2", key |-> RAYDIUM_V2_KEY],
      [program |-> "RaydiumV3", key |-> RAYDIUM_V3_KEY],
      [program |-> "OrcaV3", key |-> ORCA_V3_KEY],
      [program |-> "MeteoraV3", key |-> METEORA_V3_KEY],
      [program |-> "MeteoraV2", key |-> METEORA_V2_KEY]>>

\* Program::index
Program_index(program) ==
    CASE program = "RaydiumV2" -> 0
      [] program = "RaydiumV3" -> 1
      [] program = "OrcaV3" -> 2
      [] program = "MeteoraV3" -> 3
      [] program = "MeteoraV2" -> 4
      [] program = "Jupiter" -> 5

\* match_program: the program of the first entry of PROGRAM_KEYS with the key
match_program(key) ==
    LET hits == {i \in DOMAIN PROGRAM_KEYS : PROGRAM_KEYS[i].key = key} IN
    IF hits = {} THEN None
    ELSE Some(PROGRAM_KEYS[CHOOSE i \in hits : \A j \in hits : i <= j].program)

ADD_LIQUIDITY == <<181, 157, 89, 67, 143, 182, 52, 72>>
ADD_LIQUIDITY_ACCOUNTS_LEN == 14
REMOVE_ALL_LIQUIDITY == <<10, 51, 61, 35, 112, 105, 24, 85>>
REMOVE_LIQUIDITY == <<80, 85, 209, 72, 24, 206, 177, 108>>
REMOVE_LIQUIDITY_ACCOUNTS_LEN == 15
SWAP == <<248, 198, 158, 145, 225, 117, 135, 200>>
SWAP_ACCOUNTS_LEN == 14

\* u64::from_le_bytes of 8 bytes
u64_from_le_bytes(b) == [j \in 1..4 |-> b[2 * (4 - j) + 1] + 256 * b[2 * (4 - j) + 2]]

InstrErr == [outcome |-> "Err", value |-> None]

InstrPanic == [outcome |-> "Panic", value |-> None]

DecodedInstruction(pool, token_a, token_b, vault_a, vault_b, operation, change_a, change_b) ==
    [outcome |-> "Ok",
     value |-> Some([pool_address |-> pool, token_a_address |-> token_a,
                     token_b_address |-> token_b, token_a_vault |-> vault_a,
                     token_b_vault |-> vault_b, operation_type |-> operation,
                     change_liquidity_a |-> change_a, change_liquidity_b |-> change_b])]

\* account_keys[usize::from(accounts[i])] for every i of positions is in bounds
keys_in_bounds(accounts, account_keys, positions) ==
    \A i \in positions : accounts[i + 1] < Len(account_keys)

\* MeteoraV3TargetTransaction::decode_swap_instruction; data is what follows
\* the 8 bytes of the discriminator; an index or a range out of bounds panics
meteora_v3_decode_swap_instruction(data, accounts, account_keys) ==
    IF Len(accounts) # SWAP_ACCOUNTS_LEN THEN InstrErr
    ELSE IF ~keys_in_bounds(accounts, account_keys, {1, 4, 5, 6, 7}) THEN InstrPanic
    ELSE IF Len(data) < 24 THEN InstrPanic
    ELSE DecodedInstruction(account_keys[accounts[1 + 1] + 1],
                            account_keys[accounts[6 + 1] + 1], account_keys[accounts[7 + 1] + 1],
                            account_keys[accounts[4 + 1] + 1], account_keys[accounts[5 + 1] + 1],
                            "Swap",
                            u64_from_le_bytes(slice(data, 8, 16)),
                            u64_from_le_bytes(slice(data, 16, 24)))

meteora_v3_decode_remove_liquidity_instruction(data, accounts, account_keys) ==
    IF Len(accounts) # REMOVE_LIQUIDITY_ACCOUNTS_LEN THEN InstrErr
    ELSE IF ~keys_in_bounds(accounts, account_keys, {1, 5, 6, 7, 8}) THEN InstrPanic
    ELSE IF Len(data) < 24 THEN InstrPanic
    ELSE DecodedInstruction(account_keys[accounts[1 + 1] + 1],
                            account_keys[accounts[7 + 1] + 1], account_keys[accounts[8 + 1] + 1],
                            account_keys[accounts[5 + 1] + 1], account_keys[accounts[6 + 1] + 1],
                            "RemoveLiquidity",
                            u64_from_le_bytes(slice(data, 8, 16)),
                            u64_from_le_bytes(slice(data, 16, 24)))

meteora_v3_decode_add_liquidity_instruction(data, accounts, account_keys) ==
    IF Len(accounts) # ADD_LIQUIDITY_ACCOUNTS_LEN THEN InstrErr
    ELSE IF ~keys_in_bounds(accounts, account_keys, {0, 4, 5, 6, 7}) THEN InstrPanic
    ELSE IF Len(data) < 40 THEN InstrPanic
    ELSE DecodedInstruction(account_keys[accounts[0 + 1] + 1],
                            account_keys[accounts[6 + 1] + 1], account_keys[accounts[7 + 1] + 1],
                            account_keys[accounts[4 + 1] + 1], account_keys[accounts[5 + 1] + 1],
                            "AddLiquidity",
                            u64_from_le_bytes(slice(data, 24, 32)),
                            u64_from_le_bytes(slice(data, 32, 40)))

\* the body of the loop of decode for one instruction: read_exact of the
\* discriminator leaves reader at the bytes after it
meteora_v3_decode_instruction(instruction, account_keys) ==
    IF Len(instruction.data) < 8 THEN InstrErr
    ELSE LET instruction_type == slice(instruction.data, 0, 8)
             reader == slice(instruction.data, 8, Len(instruction.data))
             accounts == instruction.accounts
         IN CASE instruction_type = SWAP ->
                    meteora_v3_decode_swap_instruction(reader, accounts, account_keys)
              [] instruction_type = ADD_LIQUIDITY ->
                    meteora_v3_decode_add_liquidity_instruction(reader, accounts, account_keys)
              [] instruction_type \in {REMOVE_LIQUIDITY, REMOVE_ALL_LIQUIDITY} ->
                    meteora_v3_decode_remove_liquidity_instruction(reader, accounts, account_keys)
              [] OTHER -> InstrErr

\* the loop `for instruction in target_instructions`, from instruction k on
RECURSIVE meteora_v3_decode_loop(_, _, _)
meteora_v3_decode_loop(target_instructions, account_keys, k) ==
    IF k > Len(target_instructions) THEN "Ok"
    ELSE LET r == meteora_v3_decode_instruction(target_instructions[k], account_keys) IN
         IF r.outcome # "Ok" THEN r.outcome
         ELSE meteora_v3_decode_loop(target_instructions, account_keys, k + 1)

\* MeteoraV3TargetTransaction::decode: "Ok", "Err" or "Panic"
meteora_v3_decode(transaction, program_index) ==
    LET target_instructions ==
            SelectSeq(transaction.instructions,
                      LAMBDA instruction : instruction.program_id_index = program_index)
    IN IF Len(target_instructions) = 0 THEN "Err"
       ELSE meteora_v3_decode_loop(target_instructions, transaction.keys, 1)

\* OrcaV3TargetTransaction::decode
orca_v3_decode(transaction, program_index) == "Ok"

\* decode of the decoders whose files are not in the tree (jupiter_v6,
\* raydium_v2, raydium_v3, meteora_v2): a Result, as the trait declares
other_decode(transaction, program_index, stub) == stub

\* decode_transaction: DECODERS[program.index()].decode(transaction, program_index)
decode_transaction(program, transaction, program_index, stub) ==
    LET idx == Program_index(program) IN
    CASE idx = 2 -> orca_v3_decode(transaction, program_index)
      [] idx = 3 -> meteora_v3_decode(transaction, program_index)
      [] OTHER -> other_decode(transaction, program_index, stub)

\* the loop over static_account_keys().iter().enumerate() of the closure of
\* filter_by_programs, from position program_index on
RECURSIVE scan_keys(_, _, _)
scan_keys(keys, program_index, first_non_jupiter) ==
    IF program_index >= Len(keys) THEN first_non_jupiter
    ELSE LET program == match_program(keys[program_index + 1]) IN
         IF program # None /\ program[1] = "Jupiter"
         THEN Some([program_index |-> program_index, program |-> "Jupiter"])
         ELSE scan_keys(keys, program_index + 1,
                        IF program # None /\ first_non_jupiter = None
                        THEN Some([program_index |-> program_index, program |-> program[1]])
                        ELSE first_non_jupiter)

\* the filter_map closure: no tuple or one
select_transaction(e_index, t_index, tx) ==
    LET found == scan_keys(tx.keys, 0, None) IN
    IF found = None THEN <<>>
    ELSE <<[e_index |-> e_index, t_index |-> t_index,
            program_index |-> found[1].program_index, tx |-> tx,
            program |-> found[1].program]>>

\* entry.transactions.iter().enumerate().filter_map(..), from transaction t_index on
RECURSIVE entry_matches(_, _, _)
entry_matches(e_index, transactions, t_index) ==
    IF t_index >= Len(transactions) THEN <<>>
    ELSE select_transaction(e_index, t_index, transactions[t_index + 1])
         \o entry_matches(e_index, transactions, t_index + 1)

\* entries.iter().enumerate().flat_map(..).collect(), from entry e_index on
RECURSIVE collect_matches(_, _)
collect_matches(ents, e_index) ==
    IF e_index >= Len(ents) THEN <<>>
    ELSE entry_matches(e_index, ents[e_index + 1], 0) \o collect_matches(ents, e_index + 1)

\* the loop `for .. in &matches` that decodes every match and drops the
\* result; a panic of a decoder ends it
RECURSIVE decode_matches(_, _, _)
decode_matches(found, k, stub) ==
    IF k > Len(found) THEN "Ok"
    ELSE IF decode_transaction(found[k].program, found[k].tx, found[k].program_index, stub)
                = "Panic"
    THEN "Panic"
    ELSE decode_matches(found, k + 1, stub)

\* filter_by_programs: Ok(matches), or the panic of a decoder
filter_by_programs(ents, stub) ==
    LET found == collect_matches(ents, 0) IN
    IF decode_matches(found, 1, stub) = "Panic"
    THEN [result |-> "Panic", matches |-> <<>>]
    ELSE [result |-> "Ok", matches |-> found]

(***************************************************************************)
(* filter_by_programs on its own: one batch of entries is classified.  The *)
(* batch holds one transaction of every shape and, before and after it,    *)
(* at most one other transaction.                                          *)
(***************************************************************************)
KeyLists == UNION {[1..n -> {JUPITER_KEY, ORCA_V3_KEY, METEORA_V3_KEY, SYSTEM_PROGRAM_KEY}] :
                    n \in 1..MaxKeys}

\* an instruction of the program at program_id_index: discriminator, then
\* len - 8 bytes of arguments; every account is static key 0
Instruction(program_id_index, discriminator, len, n_accounts) ==
    [program_id_index |-> program_id_index,
     data |-> [k \in 1..len |-> IF k <= 8 THEN discriminator[k] ELSE Filler(k - 1, 0)],
     accounts |-> [k \in 1..n_accounts |-> 0]]

\* 0-based position of the first key of the list that is `key`
FirstPosition(keys, key) ==
    (CHOOSE i \in DOMAIN keys : keys[i] = key /\ \A j \in 1..(i - 1) : keys[j] # key) - 1

\* the instructions a transaction with these keys carries: none, or one of
\* the Meteora v3 program: a swap with amount_in and minimum_amount_out (24
\* bytes), a swap with 8 more bytes, a swap cut off after 12 bytes, or an
\* instruction the decoder does not know
InstructionLists(keys) ==
    IF \A i \in DOMAIN keys : keys[i] # METEORA_V3_KEY THEN {<<>>}
    ELSE LET at == FirstPosition(keys, METEORA_V3_KEY) IN
         {<<>>,
          <<Instruction(at, SWAP, 24, SWAP_ACCOUNTS_LEN)>>,
          <<Instruction(at, SWAP, 32, SWAP_ACCOUNTS_LEN)>>,
          <<Instruction(at, SWAP, 12, SWAP_ACCOUNTS_LEN)>>,
          <<Instruction(at, ORCA_DISCRIMINATOR, 24, SWAP_ACCOUNTS_LEN)>>}

Transactions ==
    UNION {{[keys |-> keys, instructions |-> ins] : ins \in InstructionLists(keys)} :
            keys \in KeyLists}

OrcaTransaction == [keys |-> <<SYSTEM_PROGRAM_KEY, ORCA_V3_KEY>>, instructions |-> <<>>]

MeteoraSwapTransaction ==
    [keys |-> <<SYSTEM_PROGRAM_KEY, METEORA_V3_KEY>>,
     instructions |-> <<Instruction(1, SWAP, 24, SWAP_ACCOUNTS_LEN)>>]

JupiterTransaction == [keys |-> <<JUPITER_KEY>>, instructions |-> <<>>]

\* two entries: the transactions of `before` and tx, then those of `after`
Batches ==
    {<<before \o <<tx>>, after>> :
        before \in {<<>>, <<OrcaTransaction>>, <<MeteoraSwapTransaction>>},
        tx \in Transactions,
        after \in {<<>>, <<JupiterTransaction>>}}

InitFilter ==
    /\ pc = "filter_call"
    /\ GraphInit
    /\ CanonIdle
    /\ DecodeIdle
    /\ entries \in Batches
    /\ matches = NoMatches
    /\ RestIdle

FilterByPrograms ==
    /\ pc = "filter_call"
    /\ \E stub \in {"Ok", "Err"} :
        LET r == filter_by_programs(entries, stub) IN
        /\ matches' = r
        /\ pc' = IF r.result = "Panic" THEN "panicked" ELSE "filtered"
    /\ UNCHANGED <<graph_vars, canon_vars, last_call, node_calls, decode_vars, entries, rest_vars>>

NextFilter == FilterByPrograms

SpecFilter == InitFilter /\ [][NextFilter]_vars

(***************************************************************************)
(* MeteoraV3TargetTransaction::decode on its own: one transaction with one *)
(* instruction of the program is decoded.                                  *)
(***************************************************************************)
\* sixteen static account keys, the Meteora v3 program last
IxAccountKeys ==
    <<"K0", "K1", "K2", "K3", "K4", "K5", "K6", "K7", "K8", "K9", "K10", "K11", "K12",
      "K13", "K14", METEORA_V3_KEY>>

\* the instruction: its discriminator, len bytes of data in all, n_accounts
\* accounts, account k being static key k; with out_of_bounds, accounts[1]
\* names a key the transaction does not have
IxInstruction(discriminator, len, n_accounts, out_of_bounds, seed) ==
    [program_id_index |-> Len(IxAccountKeys) - 1,
     data |-> [k \in 1..len |-> IF k <= 8 THEN discriminator[k] ELSE Filler(k - 1, seed)],
     accounts |-> [k \in 1..n_accounts |-> IF out_of_bounds /\ k = 2 THEN 200 ELSE k - 1]]

IxDiscriminators ==
    {SWAP, ADD_LIQUIDITY, REMOVE_LIQUIDITY, REMOVE_ALL_LIQUIDITY, ORCA_DISCRIMINATOR}

\* data lengths: less than a discriminator, a discriminator alone, with 16,
\* 24 and 40 bytes of arguments
IxLengths == {4, 8, 24, 32, 48}

IxInputs ==
    {[transaction |->
        [keys |-> IxAccountKeys,
         instructions |-> <<IxInstruction(d, len, n, oob, seed)>>],
      program_index |-> Len(IxAccountKeys) - 1] :
        d \in IxDiscriminators, len \in IxLengths,
        n \in {SWAP_ACCOUNTS_LEN - 1, SWAP_ACCOUNTS_LEN, REMOVE_LIQUIDITY_ACCOUNTS_LEN},
        oob \in BOOLEAN, seed \in 0..MaxIxSeed}

InitMeteora ==
    /\ pc = "ix_call"
    /\ GraphInit
    /\ CanonIdle
    /\ DecodeIdle
    /\ FilterIdle
    /\ ix_in \in IxInputs
    /\ ix_out = NoIxOut
    /\ BootIdle
    /\ FanIdle
    /\ RateIdle
    /\ IngestIdle
    /\ MainIdle

\* decode, and with it the `result` of the match on the discriminator
MeteoraDecode ==
    /\ pc = "ix_call"
    /\ LET outcome == meteora_v3_decode(ix_in.transaction, ix_in.program_index) IN
        /\ ix_out' = [outcome |-> outcome,
                      decoded |-> meteora_v3_decode_instruction(
                                      ix_in.transaction.instructions[1],
                                      ix_in.transaction.keys)]
        /\ pc' = IF outcome = "Panic" THEN "panicked" ELSE "ix_done"
    /\ UNCHANGED <<core_vars, ix_in, boot_vars, fan_vars, rate_vars, main_vars, ingest_vars>>

NextMeteora == MeteoraDecode

SpecMeteora == InitMeteora /\ [][NextMeteora]_vars

(***************************************************************************)
(* bootstrap::update_all.  Each fetch_pools future is [at, pages, file]:   *)
(* `at` is the await it is suspended at ("create", "page", "footer"), or   *)
(* "Ok" / "Err" once it returned, or "dropped" once it was dropped before  *)
(* it returned.  The file is what the BufWriter was given; it is whole     *)
(* once the footer is written and the writer flushed.                      *)
(***************************************************************************)
\* File::create and the header; any `?` of the step returns Err
fetch_pools_create(f, ok) ==
    IF ok
    THEN [f EXCEPT !.at = "page", !.file.created = TRUE, !.file.header = TRUE]
    ELSE [f EXCEPT !.at = "Err"]

\* one iteration of the page loop: n pools pass check() and are written
fetch_pools_page(f, ok, n, has_next) ==
    IF ok
    THEN [f EXCEPT !.at = IF has_next /\ f.pages + 1 < MaxPages THEN "page" ELSE "footer",
                   !.pages = f.pages + 1,
                   !.file.pools = f.file.pools + n]
    ELSE [f EXCEPT !.at = "Err"]

\* the footer and the flush
fetch_pools_footer(f, ok) ==
    IF ok
    THEN [f EXCEPT !.at = "Ok", !.file.footer = TRUE, !.file.flushed = TRUE]
    ELSE [f EXCEPT !.at = "Err"]

\* one poll of a fetch_pools future, up to its next await or its return
fetch_pools(f, ok, n, has_next) ==
    CASE f.at = "create" -> fetch_pools_create(f, ok)
      [] f.at = "page" -> fetch_pools_page(f, ok, n, has_next)
      [] f.at = "footer" -> fetch_pools_footer(f, ok)
      [] OTHER -> f

returned(f) == f.at \in {"Ok", "Err"}

\* tokio::try_join!: the first Err is returned at once and the futures that
\* have not returned are dropped where they are
try_join(futures) ==
    IF \E d \in DOMAIN futures : futures[d].at = "Err"
    THEN [result |-> "Err",
          futures |-> [d \in DOMAIN futures |->
                          IF returned(futures[d]) THEN futures[d]
                          ELSE [futures[d] EXCEPT !.at = "dropped"]]]
    ELSE [result |-> IF \A d \in DOMAIN futures : futures[d].at = "Ok" THEN "Ok" ELSE "Pending",
          futures |-> futures]

InitBootstrap ==
    /\ pc = "create_dir_all"
    /\ GraphInit
    /\ CanonIdle
    /\ DecodeIdle
    /\ FilterIdle
    /\ IxIdle
    /\ BootIdle
    /\ FanIdle
    /\ RateIdle
    /\ IngestIdle
    /\ MainIdle

\* create_dir_all(data_folder_path).await?
CreateDirAll ==
    /\ pc = "create_dir_all"
    /\ \E ok \in BOOLEAN :
        /\ pc' = IF ok THEN "try_join" ELSE "returned"
        /\ update_all_ret' = IF ok THEN "Pending" ELSE "Err"
    /\ UNCHANGED <<core_vars, ix_vars, ingestors, fan_vars, rate_vars, main_vars, ingest_vars>>

\* try_join! polls one of its futures and looks at what it has
PollIngestor(d) ==
    /\ pc = "try_join"
    /\ ~returned(ingestors[d])
    /\ \E ok \in BOOLEAN, n \in 0..MaxPagePools, has_next \in BOOLEAN :
        LET joined == try_join([ingestors EXCEPT ![d] = fetch_pools(@, ok, n, has_next)]) IN
        /\ ingestors' = joined.futures
        /\ update_all_ret' = joined.result
        /\ pc' = IF joined.result = "Pending" THEN "try_join" ELSE "returned"
    /\ UNCHANGED <<core_vars, ix_vars, fan_vars, rate_vars, main_vars, ingest_vars>>

NextBootstrap ==
    \/ CreateDirAll
    \/ \E d \in INGESTORS : PollIngestor(d)

SpecBootstrap == InitBootstrap /\ [][NextBootstrap]_vars

(***************************************************************************)
(* main: the chunked fetch of the pool accounts.  The addresses are split  *)
(* into chunks, one task is spawned per chunk, join_all awaits them all,   *)
(* and the accounts of the tasks that returned are decoded and applied.    *)
(***************************************************************************)
CHUNK_SIZE == 100

\* <[T]>::chunks(size): consecutive slices of `size` elements, the last one shorter
RECURSIVE chunks(_, _)
chunks(s, size) ==
    IF Len(s) = 0 THEN <<>>
    ELSE IF Len(s) <= size THEN <<s>>
    ELSE <<SubSeq(s, 1, size)>> \o chunks(SubSeq(s, size + 1, Len(s)), size)

\* chunk_clone zipped with accounts, only the Some(account) kept
zip_some(chunk, accounts) ==
    LET n == IF Len(chunk) <= Len(accounts) THEN Len(chunk) ELSE Len(accounts)
        zipped == [j \in 1..n |-> [address |-> chunk[j], account_opt |-> accounts[j]]]
        kept == SelectSeq(zipped, LAMBDA z : z.account_opt # None)
    IN [j \in DOMAIN kept |-> [address |-> kept[j].address, account |-> kept[j].account_opt[1]]]

\* variant: one failed task makes the whole fetch come back empty
RECURSIVE join_results_all_or_nothing(_)
join_results_all_or_nothing(ts) ==
    IF \E k \in DOMAIN ts : ts[k].state # "Ok" THEN <<>>
    ELSE IF Len(ts) = 0 THEN <<>>
    ELSE zip_some(ts[1].chunk, ts[1].accounts) \o join_results_all_or_nothing(Tail(ts))

\* variant: the results are taken in the order the tasks ended in
RECURSIVE join_results_as_completed(_)
join_results_as_completed(ts) ==
    IF Len(ts) = 0 THEN <<>>
    ELSE LET k == CHOOSE i \in DOMAIN ts : \A j \in DOMAIN ts : ts[i].ended <= ts[j].ended
             rest == [i \in 1..(Len(ts) - 1) |-> IF i < k THEN ts[i] ELSE ts[i + 1]]
         IN (IF ts[k].state = "Ok" THEN zip_some(ts[k].chunk, ts[k].accounts) ELSE <<>>)
            \o join_results_as_completed(rest)

\* the filter_map over the join results and the flatten: a task that did not
\* return Ok is skipped
RECURSIVE join_results(_)
join_results(ts) ==
    IF Len(ts) = 0 THEN <<>>
    ELSE (IF ts[1].state = "Ok" THEN zip_some(ts[1].chunk, ts[1].accounts) ELSE <<>>)
         \o join_results(Tail(ts))

\* the loop over accounts_data: decode_account, then update_edge; both
\* errors are logged and the loop goes on
RECURSIVE apply_accounts(_, _)
apply_accounts(self, data) ==
    IF Len(data) = 0 THEN self
    ELSE LET d == decode_account(data[1].account) IN
         apply_accounts(IF d.result = "Ok"
                        THEN update_edge(self, data[1].address, d.update).graph
                        ELSE self,
                        Tail(data))

\* the graph build_graph returns for files with a pool of WSOL and T1 and a
\* pool of T1 and T2
LoadedPools ==
    <<PoolInfo(PoolKeys[1], TokenInfo(WSOL_ADDRESS), TokenInfo("T1"), "none"),
      PoolInfo(PoolKeys[2], TokenInfo("T1"), TokenInfo("T2"), "none")>>

LoadedGraph == insert_pool(insert_pool(Graph_default, LoadedPools[1]).graph, LoadedPools[2]).graph

\* load_pools: n addresses; the two pools of the graph are the first and the
\* last, the others are pools the graph does not hold
LoadedAddresses(n) ==
    [i \in 1..n |-> IF i = 1 THEN PoolKeys[1]
                    ELSE IF i = n THEN PoolKeys[2]
                    ELSE "Pool" \o ToString(i)]

AddressCounts ==
    {0, 1, 2, CHUNK_SIZE, CHUNK_SIZE + 1, (MaxChunks - 1) * CHUNK_SIZE, (MaxChunks - 1) * CHUNK_SIZE + 1}

\* load_pools over files that hold the first pool twice: its address is the
\* first and the last of the n, so it is in the first and in the last chunk
RepeatedAddresses(n) ==
    [i \in 1..n |-> IF i = 1 \/ i = n THEN PoolKeys[1]
                    ELSE IF i = 2 THEN PoolKeys[2]
                    ELSE "Pool" \o ToString(i)]

RepeatedCounts == {CHUNK_SIZE + 1, 2 * CHUNK_SIZE + 1}

\* the pools outside the graph that have an account on chain
OtherAccounts == {"Pool" \o ToString(25 * i) : i \in 1..(4 * MaxChunks)}

\* what get_multiple_accounts holds for an address: the pools of the graph
\* have an Orca and a Raydium account, of the others a few have an account,
\* which belongs to the token program
RpcAccount(address, seed) ==
    IF address = PoolKeys[1]
    THEN Some([owner |-> ORCA_OWNER, data |-> AccountData(ORCA_LEN, ORCA_DISCRIMINATOR, seed)])
    ELSE IF address = PoolKeys[2]
    THEN Some([owner |-> RAYDIUM_OWNER,
               data |-> AccountData(RAYDIUM_LEN, RAYDIUM_DISCRIMINATOR, seed)])
    ELSE IF address \in OtherAccounts
    THEN Some([owner |-> TOKEN_PROGRAM_OWNER, data |-> <<seed>>])
    ELSE None

InitFanout ==
    /\ pc = "load_pools"
    /\ wsol_node = LoadedGraph.wsol_node
    /\ nodes = LoadedGraph.nodes
    /\ edges = LoadedGraph.edges
    /\ address_to_node = LoadedGraph.address_to_node
    /\ address_to_edge = LoadedGraph.address_to_edge
    /\ adjacency = LoadedGraph.adjacency
    /\ all_cycles = LoadedGraph.all_cycles
    /\ depth_used = -1
    /\ updates_done = 0
    /\ last_result = "Ok"
    /\ last_call = [op |-> "build_graph", arg |-> None, ret |-> "Ok"]
    /\ node_calls = <<>>
    /\ CanonIdle
    /\ DecodeIdle
    /\ FilterIdle
    /\ IxIdle
    /\ BootIdle
    /\ addresses \in {LoadedAddresses(n) : n \in AddressCounts}
    /\ tasks = <<>>
    /\ accounts_data = <<>>
    /\ RateIdle
    /\ IngestIdle
    /\ MainIdle

\* addresses.chunks(100) and one tokio::spawn per chunk
SpawnTasks ==
    /\ pc = "load_pools"
    /\ pc' = "join_all"
    /\ tasks' = [k \in DOMAIN chunks(addresses, CHUNK_SIZE) |->
                    [chunk |-> chunks(addresses, CHUNK_SIZE)[k], state |-> "spawned",
                     accounts |-> <<>>, ended |-> 0]]
    /\ UNCHANGED <<core_vars, ix_vars, boot_vars, rate_vars, main_vars, ingest_vars, addresses, accounts_data>>

\* what a task leaves when it ends: get_multiple_accounts answered and the
\* task returns, or it returned Err and the unwrap panics
task_result(task, ok, seed, ended) ==
    IF ok
    THEN [chunk |-> task.chunk, state |-> "Ok",
          accounts |-> [j \in DOMAIN task.chunk |-> RpcAccount(task.chunk[j], seed)],
          ended |-> ended]
    ELSE [chunk |-> task.chunk, state |-> "Panicked", accounts |-> <<>>, ended |-> ended]

\* the task of chunk k ends
TaskEnds(k) ==
    /\ pc = "join_all"
    /\ tasks[k].state = "spawned"
    /\ \E ok \in BOOLEAN, seed \in 0..MaxSeed :
        tasks' = [tasks EXCEPT ![k] = task_result(tasks[k], ok, seed, 0)]
    /\ UNCHANGED <<pc, core_vars, ix_vars, boot_vars, rate_vars, main_vars, ingest_vars, addresses, accounts_data>>

\* join_all returns once every task has ended; the results are collected,
\* decoded and applied
ApplyAccounts ==
    /\ pc = "join_all"
    /\ \A k \in DOMAIN tasks : tasks[k].state # "spawned"
    /\ pc' = "applied"
    /\ accounts_data' = join_results(tasks)
    /\ SetGraph(apply_accounts(Self, join_results(tasks)))
    /\ UNCHANGED <<depth_used, updates_done, last_result, last_call, node_calls, canon_vars,
                   decode_vars, filter_vars, ix_vars, boot_vars, rate_vars, main_vars, ingest_vars, addresses, tasks>>

NextFanout ==
    \/ SpawnTasks
    \/ \E k \in DOMAIN tasks : TaskEnds(k)
    \/ ApplyAccounts

SpecFanout == InitFanout /\ [][NextFanout]_vars

\* the same start, the pool files holding the first pool twice
InitRepeated ==
    /\ pc = "load_pools"
    /\ wsol_node = LoadedGraph.wsol_node
    /\ nodes = LoadedGraph.nodes
    /\ edges = LoadedGraph.edges
    /\ address_to_node = LoadedGraph.address_to_node
    /\ address_to_edge = LoadedGraph.address_to_edge
    /\ adjacency = LoadedGraph.adjacency
    /\ all_cycles = LoadedGraph.all_cycles
    /\ depth_used = -1
    /\ updates_done = 0
    /\ last_result = "Ok"
    /\ last_call = [op |-> "build_graph", arg |-> None, ret |-> "Ok"]
    /\ node_calls = <<>>
    /\ CanonIdle
    /\ DecodeIdle
    /\ FilterIdle
    /\ IxIdle
    /\ BootIdle
    /\ addresses \in {RepeatedAddresses(n) : n \in RepeatedCounts}
    /\ tasks = <<>>
    /\ accounts_data = <<>>
    /\ RateIdle
    /\ IngestIdle
    /\ MainIdle

\* the task of chunk k ends, `ended` being its place in the order the tasks
\* end in
TaskEndsInTurn(k) ==
    /\ pc = "join_all"
    /\ tasks[k].state = "spawned"
    /\ \E ok \in BOOLEAN, seed \in 0..MaxSeed :
        LET ended == Cardinality({j \in DOMAIN tasks : tasks[j].state # "spawned"}) + 1 IN
        tasks' = [tasks EXCEPT ![k] = task_result(tasks[k], ok, seed, ended)]
    /\ UNCHANGED <<pc, core_vars, ix_vars, boot_vars, rate_vars, main_vars, ingest_vars, addresses, accounts_data>>

NextRepeated ==
    \/ SpawnTasks
    \/ \E k \in DOMAIN tasks : TaskEndsInTurn(k)
    \/ ApplyAccounts

SpecRepeated == InitRepeated /\ [][NextRepeated]_vars

(***************************************************************************)
(* Edge::get_exchange_rate.  A U256 is its 32 bytes, most significant      *)
(* first.  The f64 values of the price computation are whole numbers until *)
(* the division by 2^128 and are kept as such, in the same 32 bytes, the   *)
(* price as its numerator over 2^128.  The product with 10^decimals_diff   *)
(* and the reciprocal are not carried out: the rate returned is            *)
(* [price, decimals_diff, inverted], standing for price / 2^128 *          *)
(* 10^decimals_diff, or one over it when inverted.                         *)
(***************************************************************************)
U256_BYTES == 32

F64_MANTISSA_DIGITS == 53

\* byte j of n, byte 0 the least significant
u256_byte(n, j) == n[U256_BYTES - j]

\* the bytes j.. of the number whose byte columns sum to cols, least
\* significant first; what does not fit is lost
RECURSIVE u256_carry(_, _, _)
u256_carry(cols, j, carry) ==
    IF j = U256_BYTES THEN <<>>
    ELSE LET t == cols[j] + carry IN <<t % 256>> \o u256_carry(cols, j + 1, t \div 256)

u256_of_columns(cols) == rev(u256_carry(cols, 0, 0))

RECURSIVE u256_dot(_, _, _, _)
u256_dot(a, b, k, i) ==
    IF i > k THEN 0 ELSE u256_byte(a, i) * u256_byte(b, k - i) + u256_dot(a, b, k, i + 1)

\* U256 * U256
U256_mul(a, b) == u256_of_columns([k \in 0..(U256_BYTES - 1) |-> u256_dot(a, b, k, 0)])

U256_add(a, b) ==
    u256_of_columns([k \in 0..(U256_BYTES - 1) |-> u256_byte(a, k) + u256_byte(b, k)])

\* U256::from(u128), the u128 being eight base-65536 digits
U256_from(x) ==
    [i \in 1..U256_BYTES |->
        IF i <= 16 THEN 0
        ELSE LET d == x[((i - 17) \div 2) + 1] IN IF (i - 17) % 2 = 0 THEN d \div 256 ELSE d % 256]

\* squared >> 128
U256_shr_128(n) == [i \in 1..U256_BYTES |-> IF i <= 16 THEN 0 ELSE n[i - 16]]

\* squared & U256::from(u128::MAX)
U256_and_u128_max(n) == [i \in 1..U256_BYTES |-> IF i <= 16 THEN 0 ELSE n[i]]

u256_bit(n, k) == (u256_byte(n, k \div 8) \div (2 ^ (k % 8))) % 2

u256_bits(n) ==
    IF \A i \in 1..U256_BYTES : n[i] = 0 THEN 0
    ELSE 1 + CHOOSE k \in 0..(8 * U256_BYTES - 1) :
                /\ u256_bit(n, k) = 1
                /\ \A h \in (k + 1)..(8 * U256_BYTES - 1) : u256_bit(n, h) = 0

\* `as f64` of a whole number: the nearest number of 53 significant bits,
\* ties to the even one
as_f64(n) ==
    LET drop == u256_bits(n) - F64_MANTISSA_DIGITS IN
    IF drop <= 0 THEN n
    ELSE LET truncated ==
                 [i \in 1..U256_BYTES |->
                     LET lo == 8 * (U256_BYTES - i) IN
                     IF lo + 7 < drop THEN 0
                     ELSE IF lo >= drop THEN n[i]
                     ELSE (n[i] \div (2 ^ (drop - lo))) * (2 ^ (drop - lo))]
             ulp == [i \in 1..U256_BYTES |->
                        IF U256_BYTES - i = drop \div 8 THEN 2 ^ (drop % 8) ELSE 0]
             half == u256_bit(n, drop - 1) = 1
             above_half == \E k \in 0..(drop - 2) : u256_bit(n, k) = 1
             odd == u256_bit(n, drop) = 1
         IN IF half /\ (above_half \/ odd) THEN U256_add(truncated, ulp) ELSE truncated

\* x * 2f64.powi(64)
f64_mul_2_powi_64(x) == [i \in 1..U256_BYTES |-> IF i + 8 <= U256_BYTES THEN x[i + 8] ELSE 0]

\* f64 + f64: the sum, rounded
f64_add(x, y) == as_f64(U256_add(x, y))

\* price_f64 after the division by 2f64.powi(128), as its numerator over 2^128
price_f64(sqrt_price) ==
    LET scaled_price == U256_from(sqrt_price)
        squared == U256_mul(scaled_price, scaled_price)
        high == U256_shr_128(squared)
        low == U256_and_u128_max(squared)
    IN f64_add(f64_mul_2_powi_64(as_f64(high)), as_f64(low))

\* variant: the exponent does not look at reversed
decimals_diff_lowest_first(edge) == edge.decimals_lowest - edge.decimals_highest

decimals_diff(edge) ==
    IF edge.reversed
    THEN edge.decimals_highest - edge.decimals_lowest
    ELSE edge.decimals_lowest - edge.decimals_highest

get_exchange_rate(edge, direct) ==
    IF edge.sqrt_price = None THEN [panicked |-> TRUE]
    ELSE [panicked |-> FALSE,
          price |-> price_f64(edge.sqrt_price[1]),
          decimals_diff |-> decimals_diff(edge),
          inverted |-> (edge.reversed = direct)]

\* square-root prices: 0, 1, 2^32, 2^64 - 1, 2^64, 1.5 * 2^64, 2^96, 2^128 - 1
\* and arbitrary ones below and above 2^64
SqrtPrices ==
    {<<0, 0, 0, 0, 0, 0, 0, 0>>, <<0, 0, 0, 0, 0, 0, 0, 1>>, <<0, 0, 0, 0, 0, 1, 0, 0>>,
     <<0, 0, 0, 0, 65535, 65535, 65535, 65535>>, <<0, 0, 0, 1, 0, 0, 0, 0>>,
     <<0, 0, 0, 1, 32768, 0, 0, 0>>, <<0, 1, 0, 0, 0, 0, 0, 0>>,
     <<65535, 65535, 65535, 65535, 65535, 65535, 65535, 65535>>}
    \cup {[j \in 1..8 |-> IF j <= 4 THEN 0 ELSE 256 * Filler(2 * j, seed) + Filler(2 * j + 1, seed)] :
             seed \in 0..MaxRateSeed}
    \cup {[j \in 1..8 |-> IF j <= 2 THEN 0 ELSE 256 * Filler(2 * j, seed) + Filler(2 * j + 1, seed)] :
             seed \in 0..MaxRateSeed}

RatePools ==
    {PoolInfo(PoolKeys[1], TokenInfo(t[1]), TokenInfo(t[2]), "none") :
        t \in {<<WSOL_ADDRESS, "T1">>, <<"T1", WSOL_ADDRESS>>, <<"T1", "T2">>, <<"T1", "T1">>}}

\* the graph with the pool as its one edge, token_b known before the pool
\* or not, and the edge updated with the fetched price or not
RateGraph(pool, b_first, price) ==
    LET g0 == IF b_first THEN insert_node(Graph_default, pool.token_b[1]).graph ELSE Graph_default
        g1 == insert_pool(g0, pool).graph
    IN IF price = None THEN g1
       ELSE update_edge(g1, pool.address[1],
                        [new_liquidity |-> price[1], new_sqrt_price |-> price[1],
                         new_current_tick_index |-> 0]).graph

InitRate ==
    /\ pc = "rate_call"
    /\ \E pool \in RatePools, b_first \in BOOLEAN,
          price \in {None} \cup {Some(x) : x \in SqrtPrices} :
        LET g == RateGraph(pool, b_first, price) IN
        /\ rate_pool = Some(pool)
        /\ wsol_node = g.wsol_node
        /\ nodes = g.nodes
        /\ edges = g.edges
        /\ address_to_node = g.address_to_node
        /\ address_to_edge = g.address_to_edge
        /\ adjacency = g.adjacency
        /\ all_cycles = g.all_cycles
    /\ depth_used = -1
    /\ updates_done = 0
    /\ last_result = "Ok"
    /\ last_call = [op |-> "build_graph", arg |-> None, ret |-> "Ok"]
    /\ node_calls = <<>>
    /\ CanonIdle
    /\ DecodeIdle
    /\ FilterIdle
    /\ IxIdle
    /\ BootIdle
    /\ FanIdle
    /\ rate_call = NoRateCall
    /\ IngestIdle
    /\ MainIdle

GetExchangeRate ==
    /\ pc = "rate_call"
    /\ \E direct \in BOOLEAN :
        LET ret == get_exchange_rate(edges[1], direct) IN
        /\ rate_call' = [direct |-> direct, ret |-> Some(ret)]
        /\ pc' = IF ret.panicked THEN "panicked" ELSE "rate_done"
    /\ UNCHANGED <<core_vars, ix_vars, boot_vars, fan_vars, rate_pool, ingest_vars, main_vars>>

NextRate == GetExchangeRate

SpecRate == InitRate /\ [][NextRate]_vars

(***************************************************************************)
(* Graph::check_cycle on its own: a sequence of edge ids of a triangle of  *)
(* pools is checked.                                                       *)
(***************************************************************************)
CheckPools ==
    <<PoolInfo(PoolKeys[1], TokenInfo(WSOL_ADDRESS), TokenInfo("T1"), "none"),
      PoolInfo(PoolKeys[2], TokenInfo("T1"), TokenInfo("T2"), "none"),
      PoolInfo(PoolKeys[3], TokenInfo("T2"), TokenInfo(WSOL_ADDRESS), "none")>>

\* the graph of the three pools, a token of another file inserted before
\* them or none
CheckGraph(first) ==
    LET g0 == IF first = None THEN Graph_default
              ELSE insert_node(Graph_default, TokenInfo(first[1])).graph
        g1 == insert_pool(g0, CheckPools[1]).graph
        g2 == insert_pool(g1, CheckPools[2]).graph
    IN insert_pool(g2, CheckPools[3]).graph

CheckInputs == UNION {[1..k -> 0..(Len(CheckPools) - 1)] : k \in 1..MaxCheckLen}

InitCheck ==
    /\ pc = "check_call"
    /\ \E first \in {None, Some("T1"), Some("T2")} :
        LET g == CheckGraph(first) IN
        /\ wsol_node = g.wsol_node
        /\ nodes = g.nodes
        /\ edges = g.edges
        /\ address_to_node = g.address_to_node
        /\ address_to_edge = g.address_to_edge
        /\ adjacency = g.adjacency
        /\ all_cycles = g.all_cycles
    /\ depth_used = -1
    /\ updates_done = 0
    /\ last_result = "Ok"
    /\ \E cycle \in CheckInputs : last_call = [op |-> "check_cycle", arg |-> cycle, ret |-> "None"]
    /\ node_calls = <<>>
    /\ CanonIdle
    /\ DecodeIdle
    /\ FilterIdle
    /\ RestIdle

CheckCycle ==
    /\ pc = "check_call"
    /\ pc' = "checked"
    /\ last_call' = [last_call EXCEPT !.ret = check_cycle(Self, last_call.arg)]
    /\ UNCHANGED <<graph_vars, node_calls, canon_vars, decode_vars, filter_vars, rest_vars>>

NextCheck == CheckCycle

SpecCheck == InitCheck /\ [][NextCheck]_vars

(***************************************************************************)
(* One fetch_pools call followed through its file.  The file is the        *)
(* sequence of the pieces handed to the BufWriter: the header, the         *)
(* separator, the JSON text of a record, the footer.  The pool API answers *)
(* each request with a page of at most two pools.                          *)
(***************************************************************************)
HEADER == "{\"all_pools\":["

SEPARATOR == ","

FOOTER == "]}"

RAYDIUM_POOL_LEN == 1544

BASE58_ALPHABET ==
    <<"1", "2", "3", "4", "5", "6", "7", "8", "9", "A", "B", "C", "D", "E", "F", "G", "H",
      "J", "K", "L", "M", "N", "P", "Q", "R", "S", "T", "U", "V", "W", "X", "Y", "Z",
      "a", "b", "c", "d", "e", "f", "g", "h", "i", "j", "k", "m", "n", "o", "p", "q", "r",
      "s", "t", "u", "v", "w", "x", "y", "z">>

\* the bytes taken two by two: the same number in base 65536
bs58_pairs(bytes) ==
    [i \in 1..(Len(bytes) \div 2) |-> bytes[2 * i - 1] * 256 + bytes[2 * i]]

\* long division of a base-65536 number by 58 * 58, `rem` carried in
RECURSIVE bs58_div(_, _)
bs58_div(digits, rem) ==
    IF digits = <<>> THEN [quot |-> <<>>, rem |-> rem]
    ELSE LET cur == rem * 65536 + Head(digits)
             rest == bs58_div(Tail(digits), cur % (58 * 58))
         IN [quot |-> <<cur \div (58 * 58)>> \o rest.quot, rem |-> rest.rem]

\* the base-58 digits of the number, most significant first, two per division
RECURSIVE bs58_digits(_)
bs58_digits(digits) ==
    LET d == bs58_div(digits, 0)
        high == BASE58_ALPHABET[(d.rem \div 58) + 1]
        low == BASE58_ALPHABET[(d.rem % 58) + 1]
    IN IF \A i \in DOMAIN d.quot : d.quot[i] = 0
       THEN IF d.rem = 0 THEN "" ELSE IF d.rem < 58 THEN low ELSE high \o low
       ELSE bs58_digits(d.quot) \o high \o low

\* one "1" per leading zero byte
RECURSIVE bs58_zeros(_)
bs58_zeros(bytes) ==
    IF bytes = <<>> \/ Head(bytes) # 0 THEN "" ELSE "1" \o bs58_zeros(Tail(bytes))

\* the base-58 text of 32 bytes
bs58_encode(bytes) == bs58_zeros(bytes) \o bs58_digits(bs58_pairs(bytes))

\* the pool accounts on chain: P1 and P2 are Raydium pool states with their
\* own vaults, P3 has no account, P9 is an account of another length
RaydiumAccountData(len, fill) ==
    [i \in 1..len |-> IF i \in 138..169 THEN (fill + i) % 256
                      ELSE IF i \in 170..201 THEN (2 * fill + i) % 256 ELSE 0]

RaydiumChain ==
    [a \in Base58Keys |->
        CASE a = PoolKeys[1] -> Some(RaydiumAccountData(RAYDIUM_POOL_LEN, 0))
          [] a = PoolKeys[2] -> Some(RaydiumAccountData(RAYDIUM_POOL_LEN, 77))
          [] a = UNKNOWN_POOL -> Some(RaydiumAccountData(RAYDIUM_POOL_LEN - 1, 5))
          [] OTHER -> None]

\* the 32-byte keys found at the vault offsets of the accounts on chain
VaultKeys ==
    UNION {{SubSeq(RaydiumChain[a][1], 138, 169), SubSeq(RaydiumChain[a][1], 170, 201)} :
              a \in {k \in Base58Keys : RaydiumChain[k] # None}}

\* the text of each of these keys
Base58Text == [bytes \in VaultKeys |-> bs58_encode(bytes)]

\* Pubkey::to_string
Pubkey_to_string(bytes) == Base58Text[bytes]

\* a piece of the file: a byte string literal of the code, or the JSON text of a record
bytes(text) == [text |-> text, record |-> None]

\* serde_json::to_string(&generic_pool): the JSON text of the record
to_json(pool) == [text |-> "json", record |-> Some(pool)]

\* variant: the separator is written before every record
write_record_separator_always(w, generic_pool) ==
    IF PoolInfo_check(generic_pool)
    THEN [first_item |-> FALSE,
          file |-> w.file \o <<bytes(SEPARATOR), to_json(generic_pool)>>]
    ELSE w

\* the body of `if generic_pool.check().is_ok()`: the separator unless this is
\* the first record, then the record
write_record(w, generic_pool) ==
    IF PoolInfo_check(generic_pool)
    THEN [first_item |-> FALSE,
          file |-> w.file \o (IF w.first_item THEN <<>> ELSE <<bytes(SEPARATOR)>>)
                          \o <<to_json(generic_pool)>>]
    ELSE w

\* orca.rs: the PoolInfo built from an OrcaPool
orca_generic_pool(pool) ==
    [address |-> pool.address, fee_rate |-> pool.fee_rate,
     pool_type |-> Some("Concentrated"), dex |-> Some("Orca"),
     tick_spacing |-> pool.tick_spacing,
     token_a |-> Some(pool.token_a), token_b |-> Some(pool.token_b),
     token_vault_a |-> pool.token_vault_a, token_vault_b |-> pool.token_vault_b,
     config |-> pool.config]

\* orca.rs: `for pool in &pools`
RECURSIVE orca_write_pools(_, _)
orca_write_pools(w, pools) ==
    IF pools = <<>> THEN w
    ELSE orca_write_pools(write_record(w, orca_generic_pool(Head(pools))), Tail(pools))

\* RpcClient::get_multiple_accounts: the account of each address, in the order asked
get_multiple_accounts(chain, pool_addresses) ==
    [i \in DOMAIN pool_addresses |-> chain[pool_addresses[i]]]

\* raydium.rs fetch_vaults_batch: position in pool_addresses (from 0) -> the two vaults
fetch_vaults_batch(chain, pool_addresses) ==
    LET accounts == get_multiple_accounts(chain, pool_addresses)
        kept == {i \in DOMAIN accounts :
                    accounts[i] # None /\ Len(accounts[i][1]) = RAYDIUM_POOL_LEN}
    IN [i \in {k - 1 : k \in kept} |->
           <<SubSeq(accounts[i + 1][1], 138, 169), SubSeq(accounts[i + 1][1], 170, 201)>>]

\* raydium.rs: pools.iter().filter_map(|pool| pool.id.as_ref()?.parse().ok())
raydium_pool_addresses(pools) ==
    LET parsable == SelectSeq(pools, LAMBDA pool :
                        pool.id # None /\ Pubkey_from_str(pool.id[1]).ok)
    IN [i \in DOMAIN parsable |-> Pubkey_from_str(parsable[i].id[1]).value]

raydium_token(token) ==
    [address |-> token.address, decimals |-> token.decimals,
     name |-> token.name, symbol |-> token.symbol]

\* raydium.rs: the PoolInfo built from a RaydiumPool and the vaults found for it
raydium_generic_pool(pool, pool_vaults) ==
    [address |-> pool.id,
     fee_rate |-> IF pool.config = None THEN None ELSE pool.config[1].trade_fee_rate,
     pool_type |-> IF pool.pool_type \in {Some("Concentrated"), Some("Standard")}
                   THEN pool.pool_type ELSE None,
     dex |-> Some("Raydium"),
     tick_spacing |-> IF pool.config = None THEN None ELSE pool.config[1].tick_spacing,
     token_a |-> Some(raydium_token(pool.token_a)),
     token_b |-> Some(raydium_token(pool.token_b)),
     token_vault_a |-> Some(Pubkey_to_string(pool_vaults[1])),
     token_vault_b |-> Some(Pubkey_to_string(pool_vaults[2])),
     config |-> IF pool.config = None THEN None ELSE pool.config[1].id]

\* raydium.rs: vaults.get(&pool_index), pool_index from pools.iter().enumerate()
raydium_vaults_get(vaults, pools, pool_index) ==
    IF pool_index \in DOMAIN vaults THEN Some(vaults[pool_index]) ELSE None

\* raydium.rs: `for (pool_index, pool) in pools.iter().enumerate()`
RECURSIVE raydium_write_pools(_, _, _, _)
raydium_write_pools(w, pools, vaults, pool_index) ==
    IF pool_index >= Len(pools) THEN w
    ELSE LET found == raydium_vaults_get(vaults, pools, pool_index)
             next == IF found = None THEN w
                     ELSE write_record(w, raydium_generic_pool(pools[pool_index + 1], found[1]))
         IN raydium_write_pools(next, pools, vaults, pool_index + 1)

RaydiumToken(a) ==
    [address |-> Some(a), program_id |-> Some("Tokenkeg"), symbol |-> Some(a),
     name |-> Some(a), decimals |-> Some(TokenDecimals(a))]

RaydiumPool(id) ==
    [id |-> id, pool_type |-> Some("Concentrated"),
     token_a |-> RaydiumToken(WSOL_ADDRESS), token_b |-> RaydiumToken("T1"),
     config |-> Some([id |-> Some("Config"), tick_spacing |-> Some(64),
                      trade_fee_rate |-> Some(400)])]

\* pools of a Raydium page: no id, an id that is no key, and the four accounts
RaydiumPools ==
    {RaydiumPool(id) : id \in {None, Some(INVALID_ADDRESS), Some(PoolKeys[1]),
                               Some(PoolKeys[2]), Some(PoolKeys[3]), Some(UNKNOWN_POOL)}}

OrcaPool(p, vault_b, cfg) ==
    [address |-> Some(p), fee_rate |-> Some(400), pool_type |-> Some("Whirlpool"),
     tick_spacing |-> Some(64),
     token_a |-> TokenInfo(WSOL_ADDRESS), token_b |-> TokenInfo("T1"),
     token_vault_a |-> Some("VaultA"), token_vault_b |-> vault_b, config |-> cfg]

\* pools of an Orca page: two whole ones, one without a vault, one without config
OrcaPools ==
    {OrcaPool(PoolKeys[1], Some("VaultB"), Some("Config")),
     OrcaPool(PoolKeys[2], Some("VaultB"), Some("Config")),
     OrcaPool(PoolKeys[3], None, Some("Config")),
     OrcaPool(PoolKeys[4], Some("VaultB"), None)}

\* the pages an API can answer with
Pages(dex) ==
    LET pools == IF dex = "orca" THEN OrcaPools ELSE RaydiumPools IN
    {<<>>} \cup {<<a>> : a \in pools} \cup {<<a, b>> : a, b \in pools}

\* File::create and the header
fetch_create(f, ok) ==
    IF ok THEN [f EXCEPT !.at = "page", !.file = <<bytes(HEADER)>>]
    ELSE [f EXCEPT !.at = "returned", !.ret = "Err"]

\* one iteration of the page loop; `failure` is the `?` that returned Err:
\* "request" (send, text, deserialize) or "vaults" (fetch_vaults_batch)
fetch_page(f, pools, has_next, failure) ==
    IF failure = "request" \/ (failure = "vaults" /\ f.dex = "raydium")
    THEN [f EXCEPT !.at = "returned", !.ret = "Err"]
    ELSE LET w == [first_item |-> f.first_item, file |-> f.file]
             written ==
                 IF f.dex = "orca" THEN orca_write_pools(w, pools)
                 ELSE raydium_write_pools(w, pools,
                          fetch_vaults_batch(RaydiumChain, raydium_pool_addresses(pools)), 0)
         IN [f EXCEPT !.at = IF has_next /\ f.pages + 1 < MaxPages THEN "page" ELSE "footer",
                      !.pages = f.pages + 1,
                      !.first_item = written.first_item,
                      !.file = written.file]

\* the footer and the flush
fetch_footer(f, ok) ==
    IF ok THEN [f EXCEPT !.at = "returned", !.ret = "Ok", !.file = f.file \o <<bytes(FOOTER)>>]
    ELSE [f EXCEPT !.at = "returned", !.ret = "Err"]

InitIngest ==
    /\ pc = "fetch_pools"
    /\ GraphInit
    /\ CanonIdle
    /\ DecodeIdle
    /\ FilterIdle
    /\ IxIdle
    /\ BootIdle
    /\ FanIdle
    /\ RateIdle
    /\ \E dex \in INGESTORS : fetch = [NoFetch EXCEPT !.dex = dex]
    /\ served = <<>>
    /\ MainIdle

FetchCreate ==
    /\ pc = "fetch_pools"
    /\ fetch.at = "create"
    /\ \E ok \in BOOLEAN :
        /\ fetch' = fetch_create(fetch, ok)
        /\ pc' = IF ok THEN pc ELSE "fetched"
    /\ UNCHANGED <<core_vars, ix_vars, boot_vars, fan_vars, rate_vars, main_vars, served>>

FetchPage ==
    /\ pc = "fetch_pools"
    /\ fetch.at = "page"
    /\ \E pools \in Pages(fetch.dex), has_next \in BOOLEAN,
          failure \in {"none", "request", "vaults"} :
        /\ fetch' = fetch_page(fetch, pools, has_next, failure)
        /\ served' = IF failure = "request" THEN served ELSE Append(served, pools)
        /\ pc' = IF fetch'.at = "returned" THEN "fetched" ELSE pc
    /\ UNCHANGED <<core_vars, ix_vars, boot_vars, fan_vars, rate_vars, main_vars>>

FetchFooter ==
    /\ pc = "fetch_pools"
    /\ fetch.at = "footer"
    /\ \E ok \in BOOLEAN :
        /\ fetch' = fetch_footer(fetch, ok)
        /\ pc' = "fetched"
    /\ UNCHANGED <<core_vars, ix_vars, boot_vars, fan_vars, rate_vars, main_vars, served>>

NextIngest ==
    \/ FetchCreate
    \/ FetchPage
    \/ FetchFooter

SpecIngest == InitIngest /\ [][NextIngest]_vars

(***************************************************************************)
(* The public operations of a built graph together: after build_graph,     *)
(* update_edge, build_cycles and check_cycle are called in any order, each *)
(* at most once.  The pool files hold a few pools between the base token   *)
(* and two others, a pool of one token with itself, a repeated pool        *)
(* address and a record that fails.                                        *)
(***************************************************************************)
FramePools(n_edges) ==
    {PoolInfo(PoolKeys[n_edges + 1], TokenInfo(WSOL_ADDRESS), TokenInfo("T1"), "none"),
     PoolInfo(PoolKeys[n_edges + 1], TokenInfo("T1"), TokenInfo("T2"), "none"),
     PoolInfo(PoolKeys[n_edges + 1], TokenInfo("T2"), TokenInfo(WSOL_ADDRESS), "none"),
     PoolInfo(PoolKeys[n_edges + 1], TokenInfo("T1"), TokenInfo("T1"), "none"),
     PoolInfo(PoolKeys[1], TokenInfo(WSOL_ADDRESS), TokenInfo("T1"), "none"),
     PoolInfo(PoolKeys[1], TokenInfo("T1"), TokenInfo("T2"), "config")}

\* one iteration of `for pool in pools` of build_graph
FrameInsertPool ==
    /\ pc = "build_graph"
    /\ Len(edges) < MaxEdges
    /\ \E pool \in FramePools(Len(edges)) :
        LET r == insert_pool(Self, pool)
            ret == IF r.panicked THEN "Panic" ELSE IF r.ok THEN "Ok" ELSE "Err"
        IN
        /\ SetGraph(r.graph)
        /\ last_result' = ret
        /\ last_call' = [op |-> "insert_pool", arg |-> pool, ret |-> ret]
        /\ pc' = IF r.panicked THEN "panicked" ELSE pc
    /\ UNCHANGED <<depth_used, updates_done, node_calls, canon_vars, decode_vars, filter_vars, rest_vars>>

FrameUpdateEdge ==
    /\ pc = "ready"
    /\ updates_done = 0
    /\ \E address \in {PoolKeys[1], PoolKeys[2], UNKNOWN_POOL}, data \in PoolUpdates :
        LET r == update_edge(Self, address, data)
            ret == IF r.ok THEN "Ok" ELSE "Err"
        IN
        /\ SetGraph(r.graph)
        /\ last_result' = ret
        /\ last_call' = [op |-> "update_edge", arg |-> [address |-> address, data |-> data],
                         ret |-> ret]
    /\ updates_done' = updates_done + 1
    /\ UNCHANGED <<pc, depth_used, node_calls, canon_vars, decode_vars, filter_vars, rest_vars>>

FrameBuildCycles ==
    /\ pc = "ready"
    /\ depth_used = -1
    /\ \E max_depth \in 0..MaxDepth, order \in HashOrders :
        LET r == build_cycles(Self, max_depth, order) IN
        /\ SetGraph(r.graph)
        /\ last_result' = r.result
        /\ last_call' = [op |-> "build_cycles", arg |-> max_depth, ret |-> r.result]
        /\ pc' = IF r.result = "Panic" THEN "panicked" ELSE pc
        /\ depth_used' = IF r.result = "Panic" THEN depth_used ELSE max_depth
    /\ UNCHANGED <<updates_done, node_calls, canon_vars, decode_vars, filter_vars, rest_vars>>

\* check_cycle on a stored cycle or on one edge; it borrows the graph immutably
FrameCheckCycle ==
    /\ pc = "ready"
    /\ \E cycle \in all_cycles \cup {<<e>> : e \in 0..(Len(edges) - 1)} :
        last_call' = [op |-> "check_cycle", arg |-> cycle, ret |-> check_cycle(Self, cycle)]
    /\ pc' = "checked"
    /\ UNCHANGED <<graph_vars, node_calls, canon_vars, decode_vars, filter_vars, rest_vars>>

NextFrame ==
    \/ FrameInsertPool
    \/ BuildGraphReturns
    \/ FrameUpdateEdge
    \/ FrameBuildCycles
    \/ FrameCheckCycle

SpecFrame == Init /\ [][NextFrame]_vars

(***************************************************************************)
(* build_cycles called twice on the graph build_graph returned: the second *)
(* call may ask for another depth and meets another iteration order of the *)
(* adjacency sets.  Its record keeps the set the call found in all_cycles. *)
(***************************************************************************)
RebuildCycles ==
    /\ pc = "cycles_built"
    /\ \E max_depth \in 0..MaxDepth, order \in HashOrders :
        LET r == build_cycles(Self, max_depth, order) IN
        /\ SetGraph(r.graph)
        /\ last_result' = r.result
        /\ last_call' = [op |-> "build_cycles", arg |-> max_depth, ret |-> r.result,
                         first_depth |-> depth_used, first_cycles |-> all_cycles]
        /\ pc' = IF r.result = "Panic" THEN "panicked" ELSE "rebuilt"
        /\ depth_used' = IF r.result = "Panic" THEN depth_used ELSE max_depth
    /\ UNCHANGED <<updates_done, node_calls, canon_vars, decode_vars, filter_vars, rest_vars>>

NextRebuild ==
    \/ FrameInsertPool
    \/ BuildGraphReturns
    \/ BuildCycles
    \/ RebuildCycles

SpecRebuild == Init /\ [][NextRebuild]_vars

(***************************************************************************)
(* The process: main and the entry stream it reads before anything else.   *)
(***************************************************************************)
\* exit status of a process whose main returned Ok(())
EXIT_SUCCESS == 0

\* exit status of a process whose main thread panicked
EXIT_PANIC == 101

\* the command lines: with and without the argument setup
InitMain ==
    /\ pc = "main"
    /\ GraphInit
    /\ CanonIdle
    /\ DecodeIdle
    /\ FilterIdle
    /\ IxIdle
    /\ BootIdle
    /\ FanIdle
    /\ RateIdle
    /\ IngestIdle
    /\ \E setup \in BOOLEAN : run = [NoRun EXCEPT !.setup = setup]

\* one stage of the run and how it ended
stage(name, ret) == [name |-> name, ret |-> ret]

\* the process ends with the given status
exit(r, code) == [r EXCEPT !.exit_code = Some(code)]

\* the setup branch: the result of update_all is dropped
main_setup(r, update_all_ok) ==
    IF r.setup
    THEN [r EXCEPT !.stages = Append(@, stage("update_all", IF update_all_ok THEN "Ok" ELSE "Err"))]
    ELSE r

\* connect and subscribe_entries: unwrap panics on an error
deshred_unwrap(r, name, ok) ==
    IF ok
    THEN [r EXCEPT !.stages = Append(@, stage(name, "Ok"))]
    ELSE exit([r EXCEPT !.stages = Append(@, stage(name, "Panic"))], EXIT_PANIC)

\* one turn of the while let loop: message is "entries", "undecodable",
\* "end" (Ok(None)) or "error" (Err, unwrapped)
deshred_message(r, message) ==
    CASE message = "entries"     -> [r EXCEPT !.stages = Append(@, stage("message", "Ok"))]
      [] message = "undecodable" -> [r EXCEPT !.stages = Append(@, stage("message", "Err"))]
      [] message = "end"         -> [r EXCEPT !.stages = Append(@, stage("deshred", "Ok"))]
      [] OTHER                   -> exit([r EXCEPT !.stages = Append(@, stage("message", "Panic"))],
                                         EXIT_PANIC)

\* what main does once deshred has returned Ok(()): the statement that follows
\* the call
main_after_deshred(r) == exit(r, EXIT_PANIC)

\* the messages the stream has yielded
Messages(r) == Cardinality({i \in 1..Len(r.stages) : r.stages[i].name = "message"})

Main ==
    /\ pc = "main"
    /\ \E update_all_ok \in BOOLEAN :
        /\ update_all_ok \/ run.setup
        /\ run' = main_setup(run, update_all_ok)
    /\ pc' = "connect"
    /\ UNCHANGED <<core_vars, ix_vars, boot_vars, fan_vars, rate_vars, ingest_vars>>

DeshredConnect ==
    /\ pc = "connect"
    /\ \E ok \in BOOLEAN :
        /\ run' = deshred_unwrap(run, "connect", ok)
        /\ pc' = IF ok THEN "subscribe_entries" ELSE "exited"
    /\ UNCHANGED <<core_vars, ix_vars, boot_vars, fan_vars, rate_vars, ingest_vars>>

DeshredSubscribe ==
    /\ pc = "subscribe_entries"
    /\ \E ok \in BOOLEAN :
        /\ run' = deshred_unwrap(run, "subscribe_entries", ok)
        /\ pc' = IF ok THEN "message" ELSE "exited"
    /\ UNCHANGED <<core_vars, ix_vars, boot_vars, fan_vars, rate_vars, ingest_vars>>

DeshredMessage ==
    /\ pc = "message"
    /\ \E message \in {"entries", "undecodable", "end", "error"} :
        /\ message \in {"entries", "undecodable"} => Messages(run) < MaxMessages
        /\ run' = deshred_message(run, message)
        /\ pc' = CASE message = "end"   -> "deshred_returned"
                   [] message = "error" -> "exited"
                   [] OTHER             -> pc
    /\ UNCHANGED <<core_vars, ix_vars, boot_vars, fan_vars, rate_vars, ingest_vars>>

MainAfterDeshred ==
    /\ pc = "deshred_returned"
    /\ run' = main_after_deshred(run)
    /\ pc' = "exited"
    /\ UNCHANGED <<core_vars, ix_vars, boot_vars, fan_vars, rate_vars, ingest_vars>>

NextMain ==
    \/ Main
    \/ DeshredConnect
    \/ DeshredSubscribe
    \/ DeshredMessage
    \/ MainAfterDeshred

SpecMain == InitMain /\ [][NextMain]_vars

(***************************************************************************)
(* Vocabulary of the properties.                                           *)
(***************************************************************************)
\* all rotations of s
Rotations(s) == {rotate_left(s, k) : k \in 0..Len(s)}

\* s read as a circular, undirected sequence: its rotations and those of its reversal
CircularClass(s) == Rotations(s) \cup Rotations(rev(s))

PairwiseDistinct(s) == \A i, j \in 1..Len(s) : s[i] = s[j] => i = j

\* strict lexicographic order on sequences of numbers
LexLess(a, b) ==
    \E k \in 0..Len(a) :
        /\ k <= Len(b)
        /\ \A i \in 1..k : a[i] = b[i]
        /\ \/ k = Len(a) /\ k < Len(b)
           \/ k < Len(a) /\ k < Len(b) /\ a[k + 1] < b[k + 1]

\* number of occurrences of x in s
Occurrences(s, x) == Cardinality({i \in 1..Len(s) : s[i] = x})

EdgeIds == 0..(Len(edges) - 1)

EndpointsOf(e) == {edges[e + 1].node_lowest, edges[e + 1].node_highest}

\* the node a walk along the edge ids of s ends at when it starts at node n;
\* None when some edge does not touch the node reached before it
RECURSIVE WalkEnd(_, _)
WalkEnd(s, n) ==
    IF s = <<>> THEN Some(n)
    ELSE IF n \notin EndpointsOf(Head(s)) THEN None
    ELSE LET rest == EndpointsOf(Head(s)) \ {n} IN
         WalkEnd(Tail(s), IF rest = {} THEN n ELSE CHOOSE m \in rest : TRUE)

\* closed walks from the base token that use k pairwise distinct edges
ClosedTrails(k) ==
    {s \in [1..k -> EdgeIds] : PairwiseDistinct(s) /\ WalkEnd(s, wsol_node) = Some(wsol_node)}

CyclesBuilt == depth_used >= 0

(***************************************************************************)
(* C1.  After build_cycles returns, check_cycle returns false for every    *)
(* cycle of all_cycles, at whatever node index the base token sits.        *)
(***************************************************************************)
C1_NoStoredCycleNeedsCorrection ==
    CyclesBuilt => \A c \in all_cycles : ~check_cycle(Self, c).need_change

(***************************************************************************)
(* C2.  build_cycles(D) is complete: every closed walk from the base token *)
(* over k pairwise distinct edges, 2 <= k <= D, is stored as a rotation of *)
(* its edge sequence or of the reversal of it.                             *)
(***************************************************************************)
C2_BuildCyclesComplete ==
    CyclesBuilt =>
        \A k \in 2..depth_used : \A s \in ClosedTrails(k) :
            \E c \in all_cycles : c \in CircularClass(s)

\* a triangle through the base token was enumerated at depth exactly 3
C2_Witness ==
    /\ CyclesBuilt /\ depth_used = 3
    /\ \E s \in ClosedTrails(3) :
        /\ Cardinality(UNION {EndpointsOf(s[i]) : i \in 1..3}) = 3
        /\ \E c \in all_cycles : c \in CircularClass(s)

(***************************************************************************)
(* C3.  all_cycles never holds two different sequences that are rotations  *)
(* of one another or of one another's reversal.                            *)
(***************************************************************************)
C3_OnePerCircularClass ==
    CyclesBuilt => \A c, d \in all_cycles : d \in CircularClass(c) => d = c

\* a cycle the search finds in both directions and from both ends is stored once
C3_Witness ==
    /\ CyclesBuilt
    /\ \E c \in all_cycles :
        /\ Len(c) = 3
        /\ Cardinality({s \in ClosedTrails(3) : s \in CircularClass(c)}) >= 2
        /\ \A d \in all_cycles : d \in CircularClass(c) => d = c

(***************************************************************************)
(* C4.  Every stored cycle has between 2 and D edge ids, none twice; for   *)
(* D < 2 all_cycles is empty.                                              *)
(***************************************************************************)
C4_CycleLengthAndDistinctEdges ==
    CyclesBuilt =>
        /\ \A c \in all_cycles : Len(c) >= 2 /\ Len(c) <= depth_used /\ PairwiseDistinct(c)
        /\ depth_used < 2 => all_cycles = {}

\* cycles of both lengths 2 and D = 3 are stored
C4_Witness ==
    /\ CyclesBuilt /\ depth_used = 3
    /\ \E c \in all_cycles : Len(c) = 2
    /\ \E c \in all_cycles : Len(c) = 3

(***************************************************************************)
(* C5.  After build_cycles, the edge at position 0 of every stored cycle   *)
(* has wsol_node as one of its endpoints.                                  *)
(***************************************************************************)
C5_FirstEdgeTouchesWsol ==
    CyclesBuilt => \A c \in all_cycles : Len(c) > 0 => wsol_node \in EndpointsOf(c[1])

(***************************************************************************)
(* C6.  As claimed: canonicalize is rotation-invariant for every sequence  *)
(* of edge ids.                                                            *)
(***************************************************************************)
C6_RotationInvariantAnySequence ==
    pc = "canon_done" => canon_out.rotation = canon_out.input

(***************************************************************************)
(* C6, amended.  canonicalize is rotation-invariant for every sequence of  *)
(* pairwise distinct edge ids: canonicalize(r) = canonicalize(c) for every *)
(* rotation r of such a c.                                                 *)
(***************************************************************************)
C6_RotationInvariantDistinct ==
    (pc = "canon_done" /\ PairwiseDistinct(canon_in)) => canon_out.rotation = canon_out.input

\* a sequence of three distinct ids and a proper rotation of it that does not
\* start at the minimum were canonicalized
C6_Witness ==
    /\ pc = "canon_done" /\ PairwiseDistinct(canon_in) /\ Len(canon_in) = 3
    /\ canon_rot \in 1..2
    /\ rotate_left(canon_in, canon_rot) # canon_out.rotation
    /\ canon_in # canon_out.input
    /\ canon_out.rotation = canon_out.input

(***************************************************************************)
(* C7.  canonicalize is reversal-invariant: canonicalize(reverse(c)) =     *)
(* canonicalize(c) for every sequence c of edge ids.                       *)
(***************************************************************************)
C7_ReversalInvariant ==
    pc = "canon_done" => canon_out.reversal = canon_out.input

\* three distinct ids, not in canonical order, and their reversal give the same result
C7_Witness ==
    /\ pc = "canon_done" /\ Len(canon_in) = 3 /\ PairwiseDistinct(canon_in)
    /\ rev(canon_in) # canon_in
    /\ canon_out.reversal = canon_out.input
    /\ canon_out.input # canon_in

(***************************************************************************)
(* C8.  As claimed: canonicalize(c) is the lexicographically smallest of   *)
(* the rotations of c and of its reversal, has the length and the elements *)
(* of c, and maps [] to [] and [x] to [x], for every sequence c.           *)
(***************************************************************************)
CanonShape(c, out) ==
    /\ Len(out) = Len(c)
    /\ \A x \in 0..MaxCanonId : Occurrences(out, x) = Occurrences(c, x)
    /\ Len(c) <= 1 => out = c

CanonSmallest(c, out) ==
    /\ out \in CircularClass(c)
    /\ \A r \in CircularClass(c) : ~LexLess(r, out)

C8_SmallestOfCircularClassAnySequence ==
    pc = "canon_done" => CanonShape(canon_in, canon_out.input) /\ CanonSmallest(canon_in, canon_out.input)

(***************************************************************************)
(* C8, amended.  canonicalize(c) has the length and the elements of c and  *)
(* maps [] to [] and [x] to [x]; when the edge ids of c are pairwise       *)
(* distinct it is the lexicographically smallest of the rotations of c and *)
(* of its reversal.                                                        *)
(***************************************************************************)
C8_SmallestOfCircularClassDistinct ==
    pc = "canon_done" =>
        /\ CanonShape(canon_in, canon_out.input)
        /\ PairwiseDistinct(canon_in) => CanonSmallest(canon_in, canon_out.input)

\* the smallest member of the class is a rotation of the reversal, not of c
C8_Witness ==
    /\ pc = "canon_done" /\ PairwiseDistinct(canon_in) /\ Len(canon_in) = 3
    /\ canon_out.input \notin Rotations(canon_in)
    /\ CanonSmallest(canon_in, canon_out.input)

(***************************************************************************)
(* C9.  Every edge has node_lowest < node_highest, both below |nodes|,     *)
(* whatever the two token addresses of the inserted pool are.              *)
(***************************************************************************)
C9_EdgeEndpointsOrdered ==
    \A i \in 1..Len(edges) :
        /\ edges[i].node_lowest < edges[i].node_highest
        /\ edges[i].node_highest < Len(nodes)

(***************************************************************************)
(* C10.  address_to_edge[e.address] is the index of e for every edge e: a  *)
(* pool address identifies exactly one edge id.                            *)
(***************************************************************************)
C10_AddressToEdgeIndexesEveryEdge ==
    \A i \in 1..Len(edges) :
        /\ edges[i].address \in DOMAIN address_to_edge
        /\ address_to_edge[edges[i].address] = i - 1

(***************************************************************************)
(* Vocabulary of the node and edge store.                                  *)
(***************************************************************************)
NodeAddresses == {nodes[i].address : i \in DOMAIN nodes}

\* the addresses of the insert_node calls that returned Ok
InsertedAddresses ==
    {node_calls[k].token.address[1] : k \in {j \in DOMAIN node_calls : node_calls[j].ok}}

\* the step is a call of insert_node with a token whose address is in address_to_node
InsertNodeOfPresent ==
    /\ node_calls' # node_calls
    /\ last_call'.arg.address # None
    /\ last_call'.arg.address[1] \in DOMAIN address_to_node

GraphUnchanged ==
    UNCHANGED <<wsol_node, nodes, edges, address_to_node, address_to_edge, adjacency, all_cycles>>

\* C11: insert_node of a token whose address is present returns the id of
\* the existing node and changes nothing of the graph (nodes with their
\* decimals, name and symbol, adjacency, wsol_node); after any sequence of
\* insert_node calls |nodes| is the number of distinct addresses inserted
\* and address_to_node[n.address] is the index of n for every node n.
C11_InsertNodeIdempotent ==
    /\ [](/\ Len(nodes) = Cardinality(InsertedAddresses)
          /\ DOMAIN address_to_node = NodeAddresses
          /\ \A i \in DOMAIN nodes : address_to_node[nodes[i].address] = i - 1)
    /\ [][InsertNodeOfPresent =>
            /\ node_calls'[Len(node_calls')].ok
            /\ node_calls'[Len(node_calls')].index = address_to_node[last_call'.arg.address[1]]
            /\ GraphUnchanged]_vars

\* a token was inserted again with other decimals, name and symbol
C11_Witness ==
    \E j, k \in DOMAIN node_calls :
        /\ j < k
        /\ node_calls[j].ok /\ node_calls[k].ok
        /\ node_calls[j].token.address = node_calls[k].token.address
        /\ node_calls[j].token.decimals # node_calls[k].token.decimals
        /\ node_calls[j].index = node_calls[k].index

\* C12: after any sequence of insert_pool calls every node id n has an
\* adjacency set, and adjacency[n] is exactly the set of the edge ids whose
\* node_lowest or node_highest is n: an edge is in the sets of its two
\* endpoints and in no other.
C12_AdjacencyIsIncidence ==
    /\ DOMAIN adjacency = 0..(Len(nodes) - 1)
    /\ \A n \in 0..(Len(nodes) - 1) :
        adjacency[n] = {e \in EdgeIds : n \in EndpointsOf(e)}

\* three nodes, a node with two edges and an edge that misses a node
C12_Witness ==
    /\ Len(nodes) = 3
    /\ \E n \in DOMAIN adjacency : Cardinality(adjacency[n]) >= 2
    /\ \E n \in DOMAIN adjacency, e \in EdgeIds :
        e \notin adjacency[n] /\ edges[e + 1].node_lowest < edges[e + 1].node_highest

EdgeAddresses == {edges[i].address : i \in DOMAIN edges}

\* the step is a call of update_edge
UpdateEdgeStep == updates_done' # updates_done

DynamicFieldsOf(edge) == <<edge.sqrt_price, edge.liquidity, edge.current_tick_index>>

\* C13: update_edge on the address of a pool of the graph returns Ok and
\* sets sqrt_price, liquidity and current_tick_index of the edge of that
\* address (the one address_to_edge names) to the values of the update,
\* whatever the edge held before; in every reachable state the three
\* dynamic fields of an edge are all absent or all present.
C13_UpdateEdgeSetsDynamicFields ==
    /\ [](\A i \in DOMAIN edges :
            \/ DynamicFieldsOf(edges[i]) = <<None, None, None>>
            \/ \A k \in 1..3 : DynamicFieldsOf(edges[i])[k] # None)
    /\ [][(UpdateEdgeStep /\ last_call'.arg.address \in EdgeAddresses) =>
            LET data == last_call'.arg.data
                i == address_to_edge[last_call'.arg.address] + 1
            IN /\ last_call'.ret = "Ok"
               /\ Len(edges') = Len(edges)
               /\ edges'[i].address = last_call'.arg.address
               /\ DynamicFieldsOf(edges'[i]) =
                      <<Some(data.new_sqrt_price), Some(data.new_liquidity),
                        Some(data.new_current_tick_index)>>]_vars

\* two updates were made and two edges hold the values of different updates
C13_Witness ==
    /\ updates_done = 2
    /\ last_call.op = "update_edge" /\ last_call.ret = "Ok"
    /\ \E i, j \in DOMAIN edges :
        /\ edges[i].liquidity # None /\ edges[j].liquidity # None
        /\ edges[i].liquidity # edges[j].liquidity
        /\ edges[i].current_tick_index = Some(last_call.arg.data.new_current_tick_index)

\* C14: update_edge on an address that no pool of the graph has returns an
\* error and leaves nodes, edges, address_to_node, address_to_edge,
\* adjacency, wsol_node and all_cycles unchanged.
C14_UpdateEdgeUnknownAddress ==
    [][(UpdateEdgeStep /\ last_call'.arg.address \notin EdgeAddresses) =>
        (last_call'.ret = "Err" /\ GraphUnchanged)]_vars

\* update_edge failed on a graph that has edges
C14_Witness ==
    /\ last_call.op = "update_edge" /\ last_call.ret = "Err"
    /\ edges # <<>>
    /\ last_call.arg.address \notin EdgeAddresses

\* some address of a complete record is not base58 text of a key
UnparsableAddress(pool) ==
    \E a \in {pool.address, pool.token_vault_a, pool.token_vault_b, pool.config,
               pool.token_a[1].address, pool.token_b[1].address} :
        ~Pubkey_from_str(a[1]).ok

InvalidPool(pool) == ~PoolInfo_check(pool) \/ UnparsableAddress(pool)

\* C15: build_graph skips every invalid pool of a file (a required field
\* absent, or an address that does not parse): insert_pool returns an error
\* for it, adds no edge, and build_graph goes on with the remaining pools.
C15_BuildGraphSkipsInvalidPools ==
    (last_call.op = "insert_pool" /\ InvalidPool(last_call.arg)) =>
        (last_call.ret = "Err" /\ pc = "build_graph")

\* the step is a call of insert_node with an address that is not base58 text of a key
InsertNodeOfInvalid ==
    /\ node_calls' # node_calls
    /\ last_call'.arg.address # None
    /\ last_call'.arg.address[1] \notin Base58Keys

\* C16: insert_node with an address that is not valid base58 returns an
\* error and changes none of nodes, address_to_node, adjacency, wsol_node.
C16_InsertNodeInvalidAddress ==
    [][InsertNodeOfInvalid =>
        /\ ~node_calls'[Len(node_calls')].ok
        /\ last_call'.ret = "Err"
        /\ UNCHANGED <<nodes, address_to_node, adjacency, wsol_node>>]_vars

\* insert_node failed on a graph that has nodes
C16_Witness ==
    /\ last_call.op = "insert_node" /\ last_call.ret = "Err"
    /\ last_call.arg.address = Some(INVALID_ADDRESS)
    /\ nodes # <<>>

\* C17: wsol_node is the sentinel exactly when no node has the address of
\* the base token; otherwise nodes[wsol_node] is the node with that
\* address; once wsol_node is set it never changes.
C17_WsolNodeTracksBaseToken ==
    /\ [](/\ (wsol_node = USIZE_MAX) <=> (WSOL_ADDRESS \notin NodeAddresses)
          /\ wsol_node # USIZE_MAX =>
                (wsol_node < Len(nodes) /\ nodes[wsol_node + 1].address = WSOL_ADDRESS))
    /\ [][wsol_node # USIZE_MAX => wsol_node' = wsol_node]_vars

\* the base token is not the first node and nodes were inserted after it
C17_Witness ==
    /\ wsol_node # USIZE_MAX
    /\ wsol_node > 0
    /\ Len(nodes) > wsol_node + 1

(***************************************************************************)
(* Vocabulary of the account decoders.                                     *)
(***************************************************************************)
Decoded == pc = "decoded"

\* layout length and discriminator of a registered owner
LayoutLenOf(owner) == IF owner = ORCA_OWNER THEN 653 ELSE 1544

DiscriminatorOf(owner) ==
    IF owner = ORCA_OWNER THEN ORCA_DISCRIMINATOR ELSE RAYDIUM_DISCRIMINATOR

OwnerRegistered == account.owner \in {ORCA_OWNER, RAYDIUM_OWNER}

LengthMatches == Len(account.data) = LayoutLenOf(account.owner)

DiscriminatorMatches == SubSeq(account.data, 1, 8) = DiscriminatorOf(account.owner)

WrongLength == decoded = [result |-> "Err", error |-> "Account data has wrong length"]

WrongDiscriminator ==
    /\ decoded.result = "Err"
    /\ decoded.error \in {"Wrong Discriminator Found", "Wrong Descriminator Found"}

UnknownDex == decoded = [result |-> "Err", error |-> "Unknown DEX"]

\* the 16 bytes that hold the u128 v in little-endian order
U128ToLeBytes(v) ==
    [i \in 1..16 |->
        LET digit == v[8 - ((i - 1) \div 2)] IN
        IF (i - 1) % 2 = 0 THEN digit % 256 ELSE digit \div 256]

\* the 4 bytes that hold the i32 t in two's complement, little-endian order
I32ToLeBytes(t) ==
    LET m == IF t < 0 THEN t - (-2147483647 - 1) ELSE t IN
    <<m % 256, (m \div 256) % 256, (m \div 65536) % 256,
      (m \div 16777216) + (IF t < 0 THEN 128 ELSE 0)>>

\* the bytes [from, to) of the account, 0-based
BytesAt(from, to) == [i \in 1..(to - from) |-> account.data[from + i]]

\* C18: decode_account returns a PoolUpdate exactly when the owner is a
\* registered program (Orca Whirlpool, Raydium CLMM), the data length is
\* that owner's layout length (653, 1544) and the first 8 bytes are that
\* owner's discriminator; an unknown owner gives UnknownDex, a wrong length
\* WrongLength whatever the discriminator, a wrong discriminator on data of
\* the right length WrongDiscriminator, each as a returned error.
C18_DecodeAccountAcceptance ==
    Decoded =>
        /\ decoded.result \in {"Ok", "Err"}
        /\ (decoded.result = "Ok") <=>
                (OwnerRegistered /\ LengthMatches /\ DiscriminatorMatches)
        /\ ~OwnerRegistered => UnknownDex
        /\ (OwnerRegistered /\ ~LengthMatches) => WrongLength
        /\ (OwnerRegistered /\ LengthMatches /\ ~DiscriminatorMatches) => WrongDiscriminator

\* an Orca account of Raydium's length that starts with Orca's discriminator
\* was refused for its length
C18_Witness ==
    /\ Decoded
    /\ account.owner = ORCA_OWNER
    /\ Len(account.data) = RAYDIUM_LEN
    /\ SubSeq(account.data, 1, 8) = ORCA_DISCRIMINATOR
    /\ WrongLength

\* C19: on success the decoder returns as new_liquidity, new_sqrt_price and
\* new_current_tick_index the little-endian u128, u128 and two's-complement
\* i32 at bytes [49..65), [65..81), [81..85) of an Orca account and at
\* [237..253), [253..269), [269..273) of a Raydium account.
C19_DecodedFieldsAtOffsets ==
    (Decoded /\ decoded.result = "Ok") =>
        LET base == IF account.owner = ORCA_OWNER THEN 49 ELSE 237 IN
        /\ U128ToLeBytes(decoded.update.new_liquidity) = BytesAt(base, base + 16)
        /\ U128ToLeBytes(decoded.update.new_sqrt_price) = BytesAt(base + 16, base + 32)
        /\ I32ToLeBytes(decoded.update.new_current_tick_index) = BytesAt(base + 32, base + 36)

\* a Raydium account with a negative tick and liquidity other than sqrt_price was decoded
C19_Witness ==
    /\ Decoded
    /\ decoded.result = "Ok"
    /\ account.owner = RAYDIUM_OWNER
    /\ decoded.update.new_current_tick_index < 0
    /\ decoded.update.new_liquidity # decoded.update.new_sqrt_price

(***************************************************************************)
(* Vocabulary of the classifier.                                           *)
(***************************************************************************)
FilterCalled == pc \in {"filtered", "panicked"} /\ entries # <<>>

\* positions (entry, transaction), 1-based, of the transactions of the batch
TxPositions == UNION {{<<e, t>> : t \in DOMAIN entries[e]} : e \in DOMAIN entries}

HasKey(tx, key) == \E i \in DOMAIN tx.keys : tx.keys[i] = key

\* the tuples emitted for the transaction at position p
TuplesOf(p) ==
    {k \in DOMAIN matches.matches :
        matches.matches[k].e_index = p[1] - 1 /\ matches.matches[k].t_index = p[2] - 1}

\* C20: for every transaction whose static account keys contain the Jupiter
\* program id, filter_by_programs emits exactly one tuple for it, tagged
\* Jupiter and carrying the position of the first Jupiter key, also when
\* another recognised program id stands earlier in the keys.
C20_JupiterPreferred ==
    FilterCalled =>
        \A p \in TxPositions :
            LET tx == entries[p[1]][p[2]] IN
            HasKey(tx, JUPITER_KEY) =>
                /\ Cardinality(TuplesOf(p)) = 1
                /\ \A k \in TuplesOf(p) :
                    /\ matches.matches[k].program = "Jupiter"
                    /\ matches.matches[k].program_index = FirstPosition(tx.keys, JUPITER_KEY)
                    /\ matches.matches[k].tx = tx

\* the keys of PROGRAM_KEYS
RecognisedKeys == {PROGRAM_KEYS[i].key : i \in DOMAIN PROGRAM_KEYS}

\* 0-based positions of the keys of tx that are recognised programs
RecognisedPositions(tx) == {i - 1 : i \in {j \in DOMAIN tx.keys : tx.keys[j] \in RecognisedKeys}}

\* the program whose key is `key`
ProgramOfKey(key) ==
    (CHOOSE i \in DOMAIN PROGRAM_KEYS : PROGRAM_KEYS[i].key = key) - 1

\* C21: for a transaction without the Jupiter key filter_by_programs emits
\* exactly one tuple, with the earliest static account key that is a
\* recognised program and its position; for a transaction without a
\* recognised program it emits nothing; the tuples come in increasing
\* (entry index, transaction index) order and carry those indices.
C21_EarliestDexProgram ==
    FilterCalled =>
        /\ \A p \in TxPositions :
            LET tx == entries[p[1]][p[2]]
                at == RecognisedPositions(tx)
            IN ~HasKey(tx, JUPITER_KEY) =>
                IF at = {} THEN TuplesOf(p) = {}
                ELSE LET first == CHOOSE i \in at : \A j \in at : i <= j IN
                     /\ Cardinality(TuplesOf(p)) = 1
                     /\ \A k \in TuplesOf(p) :
                         /\ matches.matches[k].program_index = first
                         /\ matches.matches[k].program =
                                PROGRAM_KEYS[ProgramOfKey(tx.keys[first + 1]) + 1].program
                         /\ matches.matches[k].tx = tx
        /\ \A k \in DOMAIN matches.matches :
            /\ <<matches.matches[k].e_index + 1, matches.matches[k].t_index + 1>> \in TxPositions
            /\ \A l \in DOMAIN matches.matches :
                k < l => \/ matches.matches[k].e_index < matches.matches[l].e_index
                         \/ /\ matches.matches[k].e_index = matches.matches[l].e_index
                            /\ matches.matches[k].t_index < matches.matches[l].t_index

(***************************************************************************)
(* Vocabulary of the Meteora v3 decoder.                                   *)
(***************************************************************************)
IxCalled == pc \in {"ix_done", "panicked"} /\ ix_in # NoIxIn

TheInstruction == ix_in.transaction.instructions[1]

\* the 8 bytes that hold the u64 v in little-endian order
U64ToLeBytes(v) ==
    [i \in 1..8 |->
        LET digit == v[4 - ((i - 1) \div 2)] IN
        IF (i - 1) % 2 = 0 THEN digit % 256 ELSE digit \div 256]

\* the bytes [from, to) of the data of the instruction, 0-based
IxBytesAt(from, to) == [i \in 1..(to - from) |-> TheInstruction.data[from + i]]

\* the static key that account i (0-based) of the instruction names
IxAccountKey(i) == ix_in.transaction.keys[TheInstruction.accounts[i + 1] + 1]

\* a swap with 14 accounts that name static keys and data that holds both amounts
WellFormedSwap ==
    /\ Len(TheInstruction.data) >= 24
    /\ SubSeq(TheInstruction.data, 1, 8) = SWAP
    /\ Len(TheInstruction.accounts) = 14
    /\ \A k \in DOMAIN TheInstruction.accounts :
        TheInstruction.accounts[k] < Len(ix_in.transaction.keys)

\* C22: for a Meteora v3 swap instruction (discriminator at data bytes
\* [0..8)) with exactly 14 accounts, decode reads amount_in from bytes
\* [8..16) and min_out from bytes [16..24) of the instruction data, the
\* pool from accounts[1], the vaults from accounts[4] and [5] and the tokens
\* from accounts[6] and [7].
C22_MeteoraSwapLayout ==
    (IxCalled /\ WellFormedSwap) =>
        /\ ix_out.outcome = "Ok"
        /\ ix_out.decoded.outcome = "Ok"
        /\ LET d == ix_out.decoded.value[1] IN
            /\ d.operation_type = "Swap"
            /\ U64ToLeBytes(d.change_liquidity_a) = IxBytesAt(8, 16)
            /\ U64ToLeBytes(d.change_liquidity_b) = IxBytesAt(16, 24)
            /\ d.pool_address = IxAccountKey(1)
            /\ d.token_a_vault = IxAccountKey(4)
            /\ d.token_b_vault = IxAccountKey(5)
            /\ d.token_a_address = IxAccountKey(6)
            /\ d.token_b_address = IxAccountKey(7)

FileComplete(file) == file.created /\ file.header /\ file.footer /\ file.flushed

\* C23: once update_all has returned because one ingestor failed, the other
\* ingestor has run to completion and its pool file is whole
C23_FailureAbortsOnlyThatIngestor ==
    pc = "returned" =>
        \A d, e \in INGESTORS :
            (d # e /\ ingestors[d].at = "Err" /\ ingestors[e].at # "Err") =>
                (ingestors[e].at = "Ok" /\ FileComplete(ingestors[e].file))

RECURSIVE Concat(_)
Concat(ss) == IF Len(ss) = 0 THEN <<>> ELSE ss[1] \o Concat(Tail(ss))

\* the (chunk, position) pairs whose task returned an account
Returned == {<<k, j>> \in (DOMAIN tasks) \X (1..CHUNK_SIZE) :
                /\ tasks[k].state = "Ok"
                /\ j \in DOMAIN tasks[k].accounts
                /\ tasks[k].accounts[j] # None}

\* the chunks whose task did not fail and that hold the address
OkChunksOf(address) ==
    {k \in DOMAIN tasks : tasks[k].state = "Ok"
                           /\ \E j \in DOMAIN tasks[k].chunk : tasks[k].chunk[j] = address}

\* C24: the addresses are split into chunks of at most 100, each address in
\* exactly one chunk and one task per chunk; after the join the accounts of
\* every chunk whose task did not fail, and only those, are collected,
\* decoded and applied to the graph: an edge whose account came back holds
\* the decoded liquidity, price and tick, and an edge whose address was only
\* in a failed chunk is as build_graph left it.
C24_FailedChunkAloneDropped ==
    /\ pc \in {"join_all", "applied"} =>
        /\ \A k \in DOMAIN tasks : Len(tasks[k].chunk) \in 1..CHUNK_SIZE
        /\ Concat([k \in DOMAIN tasks |-> tasks[k].chunk]) = addresses
    /\ pc = "applied" =>
        /\ \A kj \in Returned :
              \E p \in DOMAIN accounts_data :
                  accounts_data[p] = [address |-> tasks[kj[1]].chunk[kj[2]],
                                      account |-> tasks[kj[1]].accounts[kj[2]][1]]
        /\ \A p \in DOMAIN accounts_data :
              \E kj \in Returned :
                  accounts_data[p] = [address |-> tasks[kj[1]].chunk[kj[2]],
                                      account |-> tasks[kj[1]].accounts[kj[2]][1]]
        /\ \A kj \in Returned :
              LET address == tasks[kj[1]].chunk[kj[2]]
                  d == decode_account(tasks[kj[1]].accounts[kj[2]][1])
              IN (d.result = "Ok" /\ address \in EdgeAddresses) =>
                    DynamicFieldsOf(edges[address_to_edge[address] + 1])
                        = <<Some(d.update.new_sqrt_price), Some(d.update.new_liquidity),
                            Some(d.update.new_current_tick_index)>>
        /\ \A i \in DOMAIN edges :
              OkChunksOf(edges[i].address) = {} => edges[i] = LoadedGraph.edges[i]

\* the task of one chunk panicked, the task of another returned the account
\* of a pool of the graph, and that pool's edge holds the fetched values
\* while the edge of the pool of the failed chunk holds none
C24_Witness ==
    /\ pc = "applied"
    /\ Len(tasks) = MaxChunks
    /\ tasks[1].state = "Panicked"
    /\ tasks[MaxChunks].state = "Ok"
    /\ DynamicFieldsOf(edges[1]) = <<None, None, None>>
    /\ \A f \in 1..3 : DynamicFieldsOf(edges[2])[f] # None

U256_le(a, b) ==
    \/ a = b
    \/ \E i \in 1..U256_BYTES : a[i] < b[i] /\ \A j \in 1..(i - 1) : a[j] = b[j]

\* a - b for b <= a
U256_sub(a, b) ==
    u256_of_columns([k \in 0..(U256_BYTES - 1) |-> u256_byte(a, k) - u256_byte(b, k)])

\* x and y differ by no more than y / 2^48
CloseTo(x, y) ==
    LET d == IF U256_le(x, y) THEN U256_sub(y, x) ELSE U256_sub(x, y) IN
    /\ \A i \in 1..6 : d[i] = 0
    /\ U256_le([i \in 1..U256_BYTES |-> IF i + 6 <= U256_BYTES THEN d[i + 6] ELSE 0], y)

RateReturned == pc = "rate_done"

\* sqrt_price^2 in 256 bits
SquaredPrice == U256_mul(U256_from(edges[1].sqrt_price[1]), U256_from(edges[1].sqrt_price[1]))

\* C25: the price get_exchange_rate derives before the decimals correction is
\* sqrt_price^2 / 2^128, to the precision of an f64, for every sqrt_price
C25_PriceIsSquareOver2Pow128 ==
    RateReturned => CloseTo(rate_call.ret[1].price, SquaredPrice)

\* the nodes and decimals of the pool's token_a and token_b
RateNodeA == address_to_node[rate_pool[1].token_a[1].address[1]]

RateNodeB == address_to_node[rate_pool[1].token_b[1].address[1]]

RateDecimalsA == rate_pool[1].token_a[1].decimals[1]

RateDecimalsB == rate_pool[1].token_b[1].decimals[1]

\* the call asks for the rate of the traversal from node x to node y:
\* direct is lowest to highest
Traverses(x, y) ==
    /\ x # y
    /\ IF rate_call.direct
       THEN edges[1].node_lowest = x /\ edges[1].node_highest = y
       ELSE edges[1].node_highest = x /\ edges[1].node_lowest = y

\* C26: the exponent of the decimals correction is decimals_highest -
\* decimals_lowest on a reversed edge and decimals_lowest - decimals_highest
\* otherwise, and the rate is inverted exactly when reversed = direct.  So the
\* traversal from the pool's token_a to its token_b gets price *
\* 10^(decimals of a - decimals of b), not inverted, whether the edge is
\* stored reversed or not, and the traversal from token_b to token_a gets
\* one over that.
C26_RateFollowsPoolOrientation ==
    RateReturned =>
        LET e == edges[1]
            r == rate_call.ret[1]
        IN
        /\ r.price = price_f64(e.sqrt_price[1])
        /\ r.decimals_diff = IF e.reversed THEN e.decimals_highest - e.decimals_lowest
                                           ELSE e.decimals_lowest - e.decimals_highest
        /\ r.inverted = (e.reversed = rate_call.direct)
        /\ Traverses(RateNodeA, RateNodeB) =>
                (r.decimals_diff = RateDecimalsA - RateDecimalsB /\ ~r.inverted)
        /\ Traverses(RateNodeB, RateNodeA) =>
                (r.decimals_diff = RateDecimalsA - RateDecimalsB /\ r.inverted)

\* the rate of token_a to token_b was asked of an edge stored reversed whose
\* tokens differ in decimals
C26_Witness ==
    /\ RateReturned
    /\ edges[1].reversed
    /\ Traverses(RateNodeA, RateNodeB)
    /\ RateDecimalsA # RateDecimalsB

\* the node reached after the first i edges of c on the walk from the base token
NodeAfter(c, i) == WalkEnd(SubSeq(c, 1, i), wsol_node)

SimpleClosedWalk(c) ==
    /\ \A i \in 1..Len(c) : NodeAfter(c, i) # None
    /\ NodeAfter(c, Len(c)) = Some(wsol_node)
    /\ \A i \in 1..(Len(c) - 1) : NodeAfter(c, i) # Some(wsol_node)
    /\ \A i, j \in 1..(Len(c) - 1) : NodeAfter(c, i) = NodeAfter(c, j) => i = j

\* C27: every cycle build_cycles stores is a simple closed walk: walked from
\* the base token it comes back to it after its last edge and not before,
\* and passes no other token twice
C27_StoredCyclesAreSimple ==
    CyclesBuilt => \A c \in all_cycles : SimpleClosedWalk(c)

\* the 0-based positions of c whose edge does not touch the node reached before it
BadPositions(c) == {i \in 0..(Len(c) - 1) : NodeAfter(c, i) # None /\ NodeAfter(c, i + 1) = None}

\* the first bad position; the last position when every edge fits and the
\* walk ends away from the base token
FirstBadPosition(c) ==
    IF BadPositions(c) = {} THEN Len(c) - 1
    ELSE CHOOSE i \in BadPositions(c) : \A j \in BadPositions(c) : i <= j

\* C28: check_cycle returns false and leaves the cycle as it is exactly when
\* the walk from the base token along the edges of the cycle finds every
\* edge at the node reached so far and ends at the base token; otherwise it
\* returns true and has rotated the cycle once, left by 1 when the first bad
\* position is positive and left by len - 1 when it is 0
C28_CheckCycleVerdict ==
    pc = "checked" =>
        LET c == last_call.arg
            r == last_call.ret
        IN IF WalkEnd(c, wsol_node) = Some(wsol_node)
           THEN ~r.need_change /\ r.cycle = c
           ELSE /\ r.need_change
                /\ r.cycle = IF FirstBadPosition(c) > 0 THEN rotate_left(c, 1)
                                                          ELSE rotate_left(c, Len(c) - 1)

\* the last call was an insert_pool that returned Ok: the pool is the last edge
PoolInserted == last_call.op = "insert_pool" /\ last_call.ret = "Ok"

\* the ids insert_pool handed to insert_edge for token_a and token_b
InsertedNodeA == address_to_node[last_call.arg.token_a[1].address[1]]

InsertedNodeB == address_to_node[last_call.arg.token_b[1].address[1]]

\* C29: the edge insert_edge stores for a pool with the node ids a_id and
\* b_id of its tokens has reversed = (a_id > b_id); its token_vault_lowest
\* is token_vault_a when it is not reversed and token_vault_b when it is,
\* its token_vault_highest the other one, and its decimals_lowest and
\* decimals_highest are the decimals of the nodes node_lowest and
\* node_highest
C29_EdgeOrientation ==
    PoolInserted =>
        LET pool == last_call.arg
            e == edges[Len(edges)]
        IN
        /\ e.reversed = (InsertedNodeA > InsertedNodeB)
        /\ e.node_lowest = IF e.reversed THEN InsertedNodeB ELSE InsertedNodeA
        /\ e.node_highest = IF e.reversed THEN InsertedNodeA ELSE InsertedNodeB
        /\ e.token_vault_lowest = IF e.reversed THEN pool.token_vault_b[1] ELSE pool.token_vault_a[1]
        /\ e.token_vault_highest = IF e.reversed THEN pool.token_vault_a[1] ELSE pool.token_vault_b[1]
        /\ e.decimals_lowest = nodes[e.node_lowest + 1].decimals
        /\ e.decimals_highest = nodes[e.node_highest + 1].decimals

\* the transaction is selected for the Meteora v3 decoder
SelectedForMeteora(tx) ==
    /\ ~HasKey(tx, JUPITER_KEY)
    /\ RecognisedPositions(tx) # {}
    /\ tx.keys[(CHOOSE i \in RecognisedPositions(tx) :
                    \A j \in RecognisedPositions(tx) : i <= j) + 1] = METEORA_V3_KEY

\* an instruction of the layouts of the Meteora v3 decoder that is cut off
\* before the end of its two u64 arguments, has the wrong number of
\* accounts, or has a discriminator the decoder does not know
MalformedInstruction(ins) ==
    \/ Len(ins.data) < 8 + 16
    \/ slice(ins.data, 0, 8) \notin {SWAP, ADD_LIQUIDITY, REMOVE_LIQUIDITY, REMOVE_ALL_LIQUIDITY}
    \/ slice(ins.data, 0, 8) = SWAP /\ Len(ins.accounts) # SWAP_ACCOUNTS_LEN

MalformedPositions ==
    {p \in TxPositions :
        /\ SelectedForMeteora(entries[p[1]][p[2]])
        /\ \E i \in DOMAIN entries[p[1]][p[2]].instructions :
              MalformedInstruction(entries[p[1]][p[2]].instructions[i])}

\* C30: when a selected transaction of the batch carries a malformed
\* instruction, filter_by_programs still returns Ok and a tuple for every
\* transaction of the batch that has a recognised program: the failure of
\* the decoder stays with the one transaction
C30_DecoderErrorsAreLocal ==
    (FilterCalled /\ MalformedPositions # {}) =>
        /\ matches.result = "Ok"
        /\ \A p \in TxPositions :
              RecognisedPositions(entries[p[1]][p[2]]) # {} => Cardinality(TuplesOf(p)) = 1

\* the records of a file, in the order written
FileRecords(file) ==
    LET pieces == SelectSeq(file, LAMBDA piece : piece.record # None)
    IN [i \in DOMAIN pieces |-> pieces[i].record[1]]

\* the account a Raydium pool id names on chain, None when the id names none
OwnAccount(id) ==
    IF id = None \/ ~Pubkey_from_str(id[1]).ok THEN None ELSE RaydiumChain[id[1]]

\* the record carries the vaults at bytes [137..169) and [169..201) of the
\* account of its own address, which is 1544 bytes long
CarriesOwnVaults(record) ==
    LET own == OwnAccount(record.address) IN
    /\ own # None
    /\ Len(own[1]) = RAYDIUM_POOL_LEN
    /\ record.token_vault_a = Some(bs58_encode(SubSeq(own[1], 138, 169)))
    /\ record.token_vault_b = Some(bs58_encode(SubSeq(own[1], 170, 201)))

\* C31: every record the Raydium fetch_pools has written carries the two
\* vault addresses of that pool's own on-chain account, which exists and is
\* 1544 bytes long, whatever the pages held (pools without an id or with an
\* id that is no key included)
C31_RaydiumRecordsCarryOwnVaults ==
    fetch.dex = "raydium" =>
        \A i \in DOMAIN FileRecords(fetch.file) : CarriesOwnVaults(FileRecords(fetch.file)[i])

\* the records with one separator between each two of them
Separated(records) ==
    [i \in 1..(2 * Len(records) - 1) |->
        IF i % 2 = 1 THEN to_json(records[(i + 1) \div 2]) ELSE bytes(SEPARATOR)]

\* the records an Orca fetch_pools accepts from the pages it was served
OrcaAccepted(pages) ==
    LET pools == Concat(pages)
        built == [i \in DOMAIN pools |-> orca_generic_pool(pools[i])]
    IN SelectSeq(built, PoolInfo_check)

\* C32: when fetch_pools returned Ok, the file is the header, the records
\* with exactly one comma between each two, and the footer (no leading,
\* trailing or doubled comma, also with no record at all); every record in
\* it passes PoolInfo::check, and for Orca the records are the accepted
\* pools of the pages served, in order
C32_FileIsWellFormed ==
    fetch.ret = "Ok" =>
        LET records == FileRecords(fetch.file) IN
        /\ fetch.file = <<bytes(HEADER)>> \o Separated(records) \o <<bytes(FOOTER)>>
        /\ \A i \in DOMAIN records : PoolInfo_check(records[i])
        /\ fetch.dex = "orca" => records = OrcaAccepted(served)

\* two pages were served, some pool was rejected, and two records or more
\* are in the file of a call that returned Ok
C32_Witness ==
    /\ fetch.ret = "Ok"
    /\ Len(served) = 2
    /\ Len(FileRecords(fetch.file)) >= 2
    /\ Len(FileRecords(fetch.file)) < Len(Concat(served))

\* the fields of an edge that insert_edge sets for good
StaticFields(edge) ==
    [edge EXCEPT !.sqrt_price = None, !.liquidity = None, !.current_tick_index = None]

\* the fields of an edge that follow the pool account
DynamicFields(edge) == <<edge.sqrt_price, edge.liquidity, edge.current_tick_index>>

\* what one step leaves of the nodes and edges that were there before it
FrameKept ==
    /\ Len(nodes') >= Len(nodes)
    /\ \A i \in DOMAIN nodes : nodes'[i] = nodes[i]
    /\ Len(edges') >= Len(edges)
    /\ \A i \in DOMAIN edges : StaticFields(edges'[i]) = StaticFields(edges[i])
    /\ \A i \in DOMAIN edges :
          DynamicFields(edges'[i]) # DynamicFields(edges[i]) =>
              /\ last_call'.op = "update_edge"
              /\ edges[i].address = last_call'.arg.address
              /\ \A j \in DOMAIN edges : j # i => edges'[j] = edges[j]

\* C33: no step of insert_pool, update_edge, build_cycles or check_cycle
\* removes, renumbers or changes a node, removes or renumbers an edge or
\* changes a static field of an edge; the dynamic fields of an edge change
\* only in an update_edge step, and then only those of the one edge addressed
C33_GraphIsAppendOnly == [][FrameKept]_vars

\* build_cycles and an update_edge that left another edge alone have run
\* on a graph of two edges or more, and check_cycle was called after them
C33_Witness ==
    /\ last_call.op = "check_cycle"
    /\ depth_used >= 1
    /\ all_cycles # {}
    /\ updates_done = 1
    /\ \E i, j \in DOMAIN edges : edges[i].liquidity # None /\ edges[j].liquidity = None

\* the step is a call of insert_pool that returned an error
InsertPoolFailed ==
    /\ pc = "build_graph"
    /\ last_call'.op = "insert_pool"
    /\ last_call'.ret = "Err"

\* C34: a call of insert_pool that returns an error leaves nodes, edges,
\* address_to_node, address_to_edge, adjacency and wsol_node as they were
C34_InsertPoolAllOrNothing ==
    [][InsertPoolFailed =>
          UNCHANGED <<nodes, edges, address_to_node, address_to_edge, adjacency, wsol_node>>]_vars

\* C35: build_cycles on a graph the base token was never inserted into
\* (wsol_node is still the sentinel) returns Ok and leaves all_cycles empty
C35_BuildCyclesWithoutBaseToken ==
    (last_call.op = "build_cycles" /\ wsol_node = USIZE_MAX) =>
        (last_call.ret = "Ok" /\ all_cycles = {})

\* C36: a second build_cycles on the unchanged graph, whatever order the
\* adjacency sets are iterated in by either call, leaves in all_cycles what
\* the first call with that depth left there, and nothing of an earlier
\* call with a larger depth: no cycle longer than the depth asked for, and
\* a subset of what the larger depth gave
C36_CyclesDependOnGraphAndDepthOnly ==
    pc = "rebuilt" =>
        /\ last_call.arg = last_call.first_depth => all_cycles = last_call.first_cycles
        /\ last_call.arg <= last_call.first_depth => all_cycles \subseteq last_call.first_cycles
        /\ \A c \in all_cycles : Len(c) <= last_call.arg

\* a second call with the same depth has replaced a set of two cycles or more
C36_Witness ==
    /\ pc = "rebuilt"
    /\ last_call.arg = last_call.first_depth
    /\ Cardinality(last_call.first_cycles) >= 2

\* the smaller of two numbers
Min(a, b) == IF a <= b THEN a ELSE b

\* C37: on a graph that holds the base token build_cycles returns for
\* every depth (larger than the number of edges, parallel edges and
\* self-loop pools included): the search never holds a path longer than
\* the depth or than the number of edges, and when it returns every
\* visited-edge bit is cleared and the path is empty
C37_SearchReturnsClean ==
    (last_call.op = "build_cycles" /\ pc = "cycles_built" /\ wsol_node # USIZE_MAX) =>
        /\ last_call.ret = "Ok"
        /\ last_call.dfs.deepest <= Min(last_call.arg, Len(edges))
        /\ Len(last_call.dfs.visited_edges) = Len(edges)
        /\ \A i \in DOMAIN last_call.dfs.visited_edges : ~last_call.dfs.visited_edges[i]
        /\ last_call.dfs.path = <<>>

\* the search went through every edge of a graph with a self-loop pool and
\* two pools between the same tokens, with a depth above the number of edges
C37_Witness ==
    /\ last_call.op = "build_cycles"
    /\ pc = "cycles_built"
    /\ wsol_node # USIZE_MAX
    /\ last_call.arg > Len(edges)
    /\ last_call.dfs.deepest = Len(edges)
    /\ \E i \in DOMAIN edges : edges[i].node_lowest = edges[i].node_highest
    /\ \E i, j \in DOMAIN edges :
          /\ i # j
          /\ edges[i].node_lowest = edges[j].node_lowest
          /\ edges[i].node_highest = edges[j].node_highest

\* the step changes the graph
GraphChanges ==
    <<wsol_node, nodes, edges, address_to_node, address_to_edge, adjacency, all_cycles>>' #
    <<wsol_node, nodes, edges, address_to_node, address_to_edge, adjacency, all_cycles>>

\* the fetched (address, account) pairs in the order of the address list:
\* position p of the list is place ((p - 1) % 100) + 1 of chunk ((p - 1) \div 100) + 1
InAddressOrder ==
    LET fetched(p) ==
            LET k == ((p - 1) \div CHUNK_SIZE) + 1
                j == ((p - 1) % CHUNK_SIZE) + 1
            IN IF tasks[k].state = "Ok" /\ tasks[k].accounts[j] # None
               THEN Some([address |-> addresses[p], account |-> tasks[k].accounts[j][1]])
               ELSE None
        positions == SelectSeq([p \in DOMAIN addresses |-> p], LAMBDA p : fetched(p) # None)
    IN [i \in DOMAIN positions |-> fetched(positions[i])[1]]

\* no step before the join changes the graph, and what is applied is the
\* fetched accounts in the order of the address list
AppliedInAddressOrder ==
    pc = "applied" =>
        /\ accounts_data = InAddressOrder
        /\ Self = apply_accounts(LoadedGraph, InAddressOrder)

\* C38: the graph changes only in the step of the owning task that follows
\* the join of all chunk tasks, and the graph it leaves is the one obtained
\* by applying the fetched accounts in address-list order, whatever order
\* the chunk tasks ended in
C38_GraphOwnedByJoiningTask ==
    /\ []AppliedInAddressOrder
    /\ [][GraphChanges =>
            /\ pc = "join_all" /\ pc' = "applied"
            /\ \A k \in DOMAIN tasks : tasks[k].state # "spawned"]_vars

\* the first pool is in two chunks whose tasks returned different accounts
\* for it, the task of the later chunk having ended first, and the accounts
\* were applied
C38_Witness ==
    /\ pc = "applied"
    /\ \E k, l \in DOMAIN tasks :
          /\ k < l
          /\ tasks[k].state = "Ok" /\ tasks[l].state = "Ok"
          /\ tasks[l].ended < tasks[k].ended
          /\ tasks[k].chunk[1] = PoolKeys[1]
          /\ tasks[l].chunk[Len(tasks[l].chunk)] = PoolKeys[1]
          /\ tasks[k].accounts[1] # tasks[l].accounts[Len(tasks[l].chunk)]

\* an input step of the run failed: a connection, a subscription or a read of
\* the stream
OrchestrationError ==
    \E i \in 1..Len(run.stages) : run.stages[i].ret = "Panic"

\* the stages of the run that carry the given name
Reached(name) == \E i \in 1..Len(run.stages) : run.stages[i].name = name

\* C39: on the run path (no argument setup), a process that has ended without
\* an orchestration error has built the graph, has enumerated the cycles
\* while no update_edge had been applied, has applied the account updates and
\* has exit code 0
C39_RunPathEndsWithExitCodeZero ==
    (pc = "exited" /\ ~run.setup /\ ~OrchestrationError) =>
        /\ run.exit_code = Some(EXIT_SUCCESS)
        /\ Reached("build_graph")
        /\ Reached("build_cycles")
        /\ Reached("update_edge")

====
